---- MODULE Spec2Model ----
(***************************************************************************)
(* A state-machine model of mass.core.massmodel.MassModel: the entity      *)
(* registries, the cached stoichiometric matrix, the custom-rate and       *)
(* fixed-concentration stores and the HistoryManager contexts, together    *)
(* with the ODE assembly of mass.core.expressions.                         *)
(***************************************************************************)
EXTENDS Integers, Sequences, FiniteSets, TLC

(***************************************************************************)
(* The objects the calling code holds.  A metabolite or reaction object is *)
(* named by a string; two objects may carry the same identifier.           *)
(***************************************************************************)
MetObjs == {"A1", "A2", "B1"}

MetId(m) == IF m = "B1" THEN "B" ELSE "A"

\* metab.ic of each object; B1 carries no initial condition (ic is None)
MetsWithIc == {"A1", "A2"}

MetIc(m) == IF m = "A1" THEN 1 ELSE 2

RxnObjs == {"R1", "R1b", "R2"}

\* the reactions that add_exchange builds are named by their identifier
RxnId(r) == IF r = "R2" THEN "R2" ELSE IF r \in {"R1", "R1b"} THEN "R1" ELSE r

GeneIds == {"g1"}

\* rxn._genes of each reaction object
RxnGenes(r) == IF r \in {"R1", "R2"} THEN {"g1"} ELSE {}

\* rxn._metabolites of each reaction object as the calling code built it:
\* R1: A -> B,  R1b (a second object with the identifier R1): B ->,  R2: 2 A ->
Stoich0(r) == CASE r = "R1"  -> [m \in {"A1", "B1"} |-> IF m = "A1" THEN -1 ELSE 1]
                [] r = "R1b" -> [m \in {"B1"} |-> -1]
                [] OTHER     -> [m \in {"A2"} |-> -2]

\* the longest list handed to one call
MaxBatch == 2

\* the deepest nesting of "with model:" scopes
MaxDepth == 2

\* how many method calls one run of the calling code makes (with blocks aside)
MaxCalls == 3

\* how many dictionaries reset_custom_rates may leave behind inside a scope
MaxDicts == 2

(***************************************************************************)
(* Sequence helpers                                                        *)
(***************************************************************************)
Range(s) == {s[i] : i \in 1..Len(s)}

RECURSIVE SeqsOver(_, _)
SeqsOver(S, n) ==
    IF n = 0 THEN {<<>>}
    ELSE LET shorter == SeqsOver(S, n - 1)
         IN  shorter \cup {Append(s, x) : s \in {t \in shorter : Len(t) = n - 1},
                                          x \in S}

\* lists without a repeated object, of length 1..n
Lists(S, n) == {s \in SeqsOver(S, n) :
                   Len(s) > 0 /\ \A i, j \in 1..Len(s) : i # j => s[i] # s[j]}

EmptyFn == [x \in {} |-> 0]

\* the element of a set of one element
Only(set) == CHOOSE x \in set : TRUE

Restrict(f, D) == [x \in D |-> f[x]]

\* dict.update(other)
Update(f, g) == [x \in (DOMAIN f) \cup (DOMAIN g) |->
                    IF x \in DOMAIN g THEN g[x] ELSE f[x]]

Without(f, D) == [x \in (DOMAIN f) \ D |-> f[x]]

VARIABLES
    metabolites,          \* self.metabolites: DictList of metabolite objects
    reactions,            \* self.reactions: DictList of reaction objects
    genes,                \* self.genes: DictList of genes
    initial_conditions,   \* self.initial_conditions: metabolite object -> value
    rxnMets,              \* rxn._metabolites of every reaction object
    metReaction,          \* metab._reaction of every metabolite object
    geneReaction,         \* gene._reaction of every gene
    rxnModel,             \* the reaction objects whose _model is this model
    S,                    \* self._S, the cached stoichiometric matrix
    rateDicts,            \* the dictionaries self._custom_rates has been bound to
    paramDicts,           \* the dictionaries self._custom_parameters has been bound to
    fixed_concentrations, \* self.fixed_concentrations
    contexts,             \* self._contexts: a stack of HistoryManager logs
    snaps,                \* per open scope: the state at its entry and what ran in it
    last,                 \* the last call, its arguments and how it ended
    kinetics,             \* rxn.Keq, rxn.ssflux, rxn.kf of every reaction and self._rtype
    returned,             \* what the last call returned to the calling code
    massReaction          \* the MassReaction object handed to the rate-law generators

vars == <<metabolites, reactions, genes, initial_conditions, rxnMets, metReaction,
          geneReaction, rxnModel, S, rateDicts, paramDicts, fixed_concentrations,
          contexts, snaps, last, kinetics, returned, massReaction>>

(***************************************************************************)
(* A call works on a record of the state; st.log holds the reversal        *)
(* actions the call has handed to the HistoryManager and st.err the        *)
(* exception that ended it ("none" when it returned).                      *)
(***************************************************************************)
InContext == Len(contexts) > 0

CurRates == rateDicts[Len(rateDicts)]

CurParams == paramDicts[Len(paramDicts)]

\* Python's None where a number is expected
None == -1000

\* a call that returns nothing
NoReturn == [none |-> TRUE]

\* the kinetic attributes of the reaction objects as the calling code built them,
\* the rate type of a new model (self._rtype = 1), its matrix type and numeric
\* type after MassModel() (self._matrix_type = 'dense', self._dtype = np.float64),
\* its identifier and its module set (self.modules = set())
Kinetics0 == [Keq |-> [r \in RxnObjs |-> 2], ssflux |-> [r \in RxnObjs |-> None],
              kf |-> [r \in RxnObjs |-> [num |-> 0, den |-> 0]], rtype |-> 1,
              matrix_type |-> "dense", dtype |-> "float64",
              id |-> "M1", modules |-> {}]

\* a reaction object without metabolites and without a generated rate law
Reaction0 == [id |-> "R1", mets |-> [x \in {} |-> 0], reversible |-> TRUE, exchange |-> FALSE,
              _rate_law |-> <<>>, _rate_expr |-> {}, _rtype |-> 1]

Cur == [mets |-> metabolites, rxns |-> reactions, genes |-> genes,
        ics |-> initial_conditions, rm |-> rxnMets, mr |-> metReaction,
        gr |-> geneReaction, rmod |-> rxnModel, S |-> S,
        rd |-> rateDicts, pd |-> paramDicts, fc |-> fixed_concentrations,
        kin |-> kinetics, ret |-> NoReturn,
        log |-> <<>>, err |-> "none"]

Raise(st, e) == IF st.err = "none" THEN [st EXCEPT !.err = e] ELSE st

\* context(partial(...)): only while a scope is open
Record(st, entries) ==
    IF InContext /\ st.err = "none" THEN [st EXCEPT !.log = st.log \o entries] ELSE st

Entry == [k |-> "", lst |-> <<>>, x |-> "", y |-> "", d |-> EmptyFn, n |-> 0]

(***************************************************************************)
(* cobra.core.dictlist.DictList as the model uses it                       *)
(***************************************************************************)
HasMetId(mets, id) == \E i \in 1..Len(mets) : MetId(mets[i]) = id

HasRxnId(rxns, id) == \E i \in 1..Len(rxns) : RxnId(rxns[i]) = id

MetById(mets, id) == mets[CHOOSE i \in 1..Len(mets) : MetId(mets[i]) = id]

\* DictList(iterable) raises ValueError when two items share an identifier
DupMetIds(lst) == \E i, j \in 1..Len(lst) : i # j /\ MetId(lst[i]) = MetId(lst[j])

DupRxnIds(lst) == \E i, j \in 1..Len(lst) : i # j /\ RxnId(lst[i]) = RxnId(lst[j])

IndexOf(seq, x) == CHOOSE i \in 1..Len(seq) : seq[i] = x

\* DictList.__isub__: remove(item) for each item; index(item) raises ValueError
\* when the item is absent or another object holds its identifier
RECURSIVE DictListISub(_, _)
DictListISub(seq, lst) ==
    IF Len(lst) = 0 THEN [seq |-> seq, err |-> "none"]
    ELSE IF Head(lst) \notin Range(seq) THEN [seq |-> seq, err |-> "ValueError"]
    ELSE DictListISub(SelectSeq(seq, LAMBDA y : y # Head(lst)), Tail(lst))

\* the keys of a coefficient map in iteration order; flipped reverses it
MetOrder == <<"A1", "A2", "B1">>

RxnOrder == <<"R1", "R1b", "R2", "EX_A", "EX_B", "S_A", "S_B", "DM_A", "DM_B">>

GeneOrder == <<"g1">>

Reverse(s) == [i \in 1..Len(s) |-> s[Len(s) + 1 - i]]

KeySeq(D, flipped) ==
    LET sorted == SelectSeq(MetOrder, LAMBDA m : m \in D)
    IN  IF flipped THEN Reverse(sorted) ELSE sorted

RxnSeq(D) == SelectSeq(RxnOrder, LAMBDA r : r \in D)

GeneSeq(D) == SelectSeq(GeneOrder, LAMBDA g : g \in D)

(***************************************************************************)
(* The stoichiometric matrix                                               *)
(***************************************************************************)
\* a matrix: its representation (kind), its numeric type, its shape, its entries
\* and, for a DataFrame, its row and column labels; none is None
NoneS == [none |-> TRUE, kind |-> "none", dtype |-> "none", nr |-> 0, nc |-> 0,
          val |-> EmptyFn, rows |-> <<>>, cols |-> <<>>]

\* the matrix_type argument of a call: None, a string, or an object that is no string
NoArg == [given |-> FALSE, str |-> FALSE, text |-> ""]

StrArg(text) == [given |-> TRUE, str |-> TRUE, text |-> text]

NotAString == [given |-> TRUE, str |-> FALSE, text |-> ""]

\* dtype=None
NoDtype == "None"

\* matrix_type.lower() for the spellings the calling code uses
Lower(text) ==
    CASE text = "Dense" -> "dense" [] text = "DOK" -> "dok"
      [] text = "DataFrame" -> "dataframe" [] text = "Source" -> "source"
      [] OTHER -> text

MatrixTypes == {"dense", "dok", "lil", "dataframe", "symbolic"}

Zeros(nr, nc) == [p \in (1..nr) \X (1..nc) |-> 0]

\* the (metabolite, reaction, coefficient) items of the given reactions
Items(rm, rxnSeq) ==
    UNION {{<<m, r, rm[r][m]>> : m \in DOMAIN rm[r]} : r \in Range(rxnSeq)}

RECURSIVE PlaceAll(_, _, _, _)
\* s_matrix[m_ind(metab), r_ind(rxn)] = stoic for every item
PlaceAll(val, items, mets, rxns) ==
    IF items = {} THEN val
    ELSE LET it == CHOOSE x \in items : TRUE
             i  == IndexOf(mets, it[1])
             j  == IndexOf(rxns, it[2])
         IN  PlaceAll([val EXCEPT ![<<i, j>>] = it[3]], items \ {it}, mets, rxns)

\* DictList.index(object) raises ValueError for an object that is not the
\* registered one
IndexRaises(st) ==
    \E j \in 1..Len(st.rxns) : \E m \in DOMAIN st.rm[st.rxns[j]] : m \notin Range(st.mets)

\* [metab.id for metab in self.metabolites], [rxn.id for rxn in self.reactions]
metabolite_ids(st) == [i \in 1..Len(st.mets) |-> MetId(st.mets[i])]

reaction_ids(st) == [j \in 1..Len(st.rxns) |-> RxnId(st.rxns[j])]

\* returns [err, s]
_create_stoichiometric_matrix(st, matrix_type, dtype) ==
    LET nm == Len(st.mets)
        nr == Len(st.rxns)
    IN  IF nm = 0 \/ nr = 0 THEN [err |-> "none", s |-> NoneS]
        ELSE IF IndexRaises(st) THEN [err |-> "ValueError", s |-> NoneS]
        ELSE [err |-> "none",
              s |-> [none |-> FALSE, kind |-> matrix_type, dtype |-> dtype,
                     nr |-> nm, nc |-> nr,
                     val |-> PlaceAll(Zeros(nm, nr), Items(st.rm, st.rxns),
                                      st.mets, st.rxns),
                     rows |-> IF matrix_type = "dataframe" THEN metabolite_ids(st) ELSE <<>>,
                     cols |-> IF matrix_type = "dataframe" THEN reaction_ids(st) ELSE <<>>]]

\* dok_matrix.resize(shape)
Resize(s, nr, nc) ==
    [s EXCEPT !.nr = nr, !.nc = nc,
              !.val = [p \in (1..nr) \X (1..nc) |->
                          IF p[1] <= s.nr /\ p[2] <= s.nc THEN s.val[p] ELSE 0]]

\* self._convert_S(matrix_type): a new matrix built from the cached matrix self._S;
\* 'dataframe' and 'symbolic' give the dense array, which the caller wraps
_convert_S(st, matrix_type) ==
    [st.S EXCEPT !.kind  = IF matrix_type \in {"dok", "lil"} THEN matrix_type ELSE "dense",
                 !.dtype = IF st.S.kind = "symbolic" THEN "object" ELSE @,
                 !.rows  = <<>>,
                 !.cols  = <<>>]

RECURSIVE DokUpdate(_, _, _, _)
\* coefficient_dictionary[(metabolites.index(metab.id), reactions.index(rxn.id))]
DokUpdate(val, items, mets, rxns) ==
    IF items = {} THEN val
    ELSE LET it == CHOOSE x \in items : TRUE
             i  == CHOOSE k \in 1..Len(mets) : MetId(mets[k]) = MetId(it[1])
             j  == CHOOSE k \in 1..Len(rxns) : RxnId(rxns[k]) = RxnId(it[2])
         IN  DokUpdate([val EXCEPT ![<<i, j>>] = it[3]], items \ {it}, mets, rxns)

\* returns [err, s].  The dok copy is resized and updated, and then the
\* cached matrix is converted once more, wrapped and returned.
_update_stoichiometry(st, lst, matrix_type) ==
    LET dok     == _convert_S(st, "dok")
        resized == Resize(dok, Len(st.mets), Len(st.rxns))
        raises  == \E i \in 1..Len(lst) :
                      \/ ~HasRxnId(st.rxns, RxnId(lst[i]))
                      \/ \E m \in DOMAIN st.rm[lst[i]] : ~HasMetId(st.mets, MetId(m))
        updated == [resized EXCEPT
                       !.val = DokUpdate(resized.val, Items(st.rm, lst), st.mets, st.rxns)]
        s_matrix == _convert_S(st, matrix_type)
    IN  IF raises THEN [err |-> "ValueError", s |-> NoneS]
        \* pd.DataFrame(s_matrix, index, columns): the labels must fit the shape
        ELSE IF /\ matrix_type = "dataframe"
                /\ (s_matrix.nr # Len(st.mets) \/ s_matrix.nc # Len(st.rxns))
        THEN [err |-> "ValueError", s |-> NoneS]
        ELSE IF matrix_type = "dataframe"
        THEN [err |-> "none", s |-> [s_matrix EXCEPT !.kind = "dataframe",
                                                     !.rows = metabolite_ids(st),
                                                     !.cols = reaction_ids(st)]]
        ELSE IF matrix_type = "symbolic"
        THEN [err |-> "none", s |-> [s_matrix EXCEPT !.kind = "symbolic"]]
        ELSE [err |-> "none", s |-> s_matrix]

\* the checks of update_S and the matrix it builds: [err, s, matrix_type, dtype]
s_matrix(st, hasList, lst, matrix_type, dtype) ==
    LET mtype == IF matrix_type.given THEN Lower(matrix_type.text)
                 ELSE st.kin.matrix_type
        dt    == IF dtype = NoDtype THEN st.kin.dtype ELSE dtype
        r     == IF st.S.none \/ ~hasList
                 THEN _create_stoichiometric_matrix(st, mtype, dt)
                 ELSE _update_stoichiometry(st, lst, mtype)
    IN  IF matrix_type.given /\ ~matrix_type.str
        THEN [err |-> "TypeError", s |-> NoneS, matrix_type |-> mtype, dtype |-> dt]
        ELSE IF matrix_type.given /\ mtype \notin MatrixTypes
        THEN [err |-> "ValueError", s |-> NoneS, matrix_type |-> mtype, dtype |-> dt]
        ELSE [err |-> r.err, s |-> r.s, matrix_type |-> mtype, dtype |-> dt]

\* update_S that stores the requested matrix type before it looks at it
update_S_stores_first(st, hasList, lst, matrix_type, dtype, update_model) ==
    IF st.err # "none" THEN st
    ELSE LET r   == s_matrix(st, hasList, lst, matrix_type, dtype)
             st1 == IF matrix_type.given
                    THEN [st EXCEPT !.kin.matrix_type = matrix_type.text] ELSE st
         IN  IF r.err # "none" THEN Raise(st1, r.err)
             ELSE IF update_model
             THEN [st EXCEPT !.S = r.s, !.kin.matrix_type = r.matrix_type,
                             !.kin.dtype = r.dtype]
             ELSE st

\* update_S(reaction_list, matrix_type, dtype, update_model); hasList is FALSE for
\* reaction_list=None
update_S(st, hasList, lst, matrix_type, dtype, update_model) ==
    IF st.err # "none" THEN st
    ELSE LET r == s_matrix(st, hasList, lst, matrix_type, dtype)
         IN  IF r.err # "none" THEN Raise(st, r.err)
             ELSE IF update_model
             THEN [st EXCEPT !.S = r.s, !.kin.matrix_type = r.matrix_type,
                             !.kin.dtype = r.dtype]
             ELSE st

(***************************************************************************)
(* Initial conditions and metabolites                                      *)
(***************************************************************************)
RECURSIVE IcUndo(_, _)
\* for key in ic_dict: pop when it was new, then update(existing_ics)
IcUndo(keys, existing) ==
    IF Len(keys) = 0 THEN <<>>
    ELSE (IF Head(keys) \in DOMAIN existing THEN <<>>
          ELSE <<[Entry EXCEPT !.k = "ic_pop", !.x = Head(keys)]>>)
         \o <<[Entry EXCEPT !.k = "ic_update", !.d = existing]>>
         \o IcUndo(Tail(keys), existing)

\* update_initial_conditions(ic_dict) with ic_dict = {metab: metab.ic}
update_initial_conditions(st, lst) ==
    IF st.err # "none" \/ Len(lst) = 0 THEN st
    ELSE LET keys     == SelectSeq(lst, LAMBDA m : HasMetId(st.mets, MetId(m))
                                                     /\ m \in MetsWithIc)
             ic_dict  == [m \in Range(keys) |-> MetIc(m)]
             existing == Restrict(st.ics, Range(keys) \cap DOMAIN st.ics)
             st1      == [st EXCEPT !.ics = Update(st.ics, ic_dict)]
         IN  Record(st1, IcUndo(keys, existing))

set_initial_conditions(st, lst) ==
    IF st.err # "none" \/ Len(lst) = 0 THEN st
    ELSE update_initial_conditions(
             st, SelectSeq(lst, LAMBDA m : HasMetId(st.mets, MetId(m))))

add_metabolites(st, lst, add_ic) ==
    IF st.err # "none" THEN st
    ELSE IF DupMetIds(lst) THEN Raise(st, "ValueError")
    ELSE IF Len(lst) = 0 THEN st
    ELSE LET new == SelectSeq(lst, LAMBDA m : ~HasMetId(st.mets, MetId(m)))
             st1 == [st EXCEPT !.mets = st.mets \o new]
             st2 == IF add_ic THEN set_initial_conditions(st1, new) ELSE st1
         IN  Record(st2, <<[Entry EXCEPT !.k = "mets_isub", !.lst = new]>>)

(***************************************************************************)
(* add_reactions                                                           *)
(***************************************************************************)
RECURSIVE AddRxnMets(_, _, _)
\* for metab in list(iterkeys(rxn._metabolites))
AddRxnMets(st, rxn, keys) ==
    IF st.err # "none" \/ Len(keys) = 0 THEN st
    ELSE LET metab == Head(keys)
         IN  IF ~HasMetId(st.mets, MetId(metab))
             THEN LET st1 == add_metabolites(st, <<metab>>, TRUE)
                      st2 == [st1 EXCEPT !.mr[metab] = @ \cup {rxn}]
                  IN  AddRxnMets(
                          Record(st2, <<[Entry EXCEPT !.k = "mr_remove",
                                                      !.x = metab, !.y = rxn]>>),
                          rxn, Tail(keys))
             ELSE LET model_metab == MetById(st.mets, MetId(metab))
                      coefficient == st.rm[rxn][metab]
                      st1 == [st EXCEPT
                                 !.rm[rxn] = Update(Without(@, {metab}),
                                                    model_metab :> coefficient),
                                 !.mr[model_metab] = @ \cup {rxn}]
                  IN  AddRxnMets(
                          Record(st1, <<[Entry EXCEPT !.k = "mr_remove",
                                                      !.x = model_metab, !.y = rxn]>>),
                          rxn, Tail(keys))

RECURSIVE AddRxnGenes(_, _)
\* for gene in list(rxn._genes)
AddRxnGenes(st, gs) ==
    IF st.err # "none" \/ Len(gs) = 0 THEN st
    ELSE IF Head(gs) \in Range(st.genes) THEN AddRxnGenes(st, Tail(gs))
    ELSE AddRxnGenes(
             Record([st EXCEPT !.genes = Append(@, Head(gs))],
                    <<[Entry EXCEPT !.k = "genes_isub", !.lst = <<Head(gs)>>]>>),
             Tail(gs))

RECURSIVE AddRxnLoop(_, _, _)
\* for rxn in reaction_list
AddRxnLoop(st, lst, flips) ==
    IF st.err # "none" \/ Len(lst) = 0 THEN st
    ELSE LET rxn == Head(lst)
             st1 == [st EXCEPT !.rmod = @ \cup {rxn}]
             st2 == AddRxnMets(st1, rxn, KeySeq(DOMAIN st1.rm[rxn], flips))
             st3 == AddRxnGenes(st2, GeneSeq(RxnGenes(rxn)))
         IN  AddRxnLoop(st3, Tail(lst), flips)

SetModelEntries(lst, to) ==
    [i \in 1..Len(lst) |-> [Entry EXCEPT !.k = "rxn_set_model", !.y = lst[i], !.x = to]]

add_reactions(st, lst, update_stoichiometry, flips) ==
    IF st.err # "none" THEN st
    ELSE IF DupRxnIds(lst) THEN Raise(st, "ValueError")
    ELSE IF Len(lst) = 0 THEN st
    ELSE LET new == SelectSeq(lst, LAMBDA r : ~HasRxnId(st.rxns, RxnId(r)))
             st1 == AddRxnLoop(st, new, flips)
             st2 == [st1 EXCEPT !.rxns = st1.rxns \o new]
             st3 == IF update_stoichiometry THEN update_S(st2, TRUE, new, NoArg, NoDtype, TRUE) ELSE st2
         IN  Record(st3,
                    <<[Entry EXCEPT !.k = "rxns_isub", !.lst = new]>>
                    \o SetModelEntries(new, "None")
                    \o (IF update_stoichiometry
                        THEN <<[Entry EXCEPT !.k = "update_S", !.n = 0]>>
                        ELSE <<>>))

(***************************************************************************)
(* remove_metabolites and remove_reactions                                 *)
(***************************************************************************)
\* MassReaction.subtract_metabolites({metab: coefficient}): the metabolite
\* leaves the coefficient map, and the reaction the metabolite's back-references
subtract_metabolites(st, rxn, metab) ==
    IF st.err # "none" THEN st
    ELSE Record([st EXCEPT !.rm[rxn] = Without(@, {metab}),
                           !.mr[metab] = @ \ {rxn}],
                <<[Entry EXCEPT !.k = "rm_add", !.x = metab, !.y = rxn,
                                !.n = st.rm[rxn][metab]]>>)

RECURSIVE DelIcs(_, _)
\* for metab in metabolite_list: del self.initial_conditions[metab]
DelIcs(st, lst) ==
    IF st.err # "none" \/ Len(lst) = 0 THEN st
    ELSE IF Head(lst) \notin DOMAIN st.ics THEN Raise(st, "KeyError")
    ELSE DelIcs([st EXCEPT !.ics = Without(@, {Head(lst)})], Tail(lst))

remove_initial_conditions(st, lst) ==
    IF st.err # "none" \/ Len(lst) = 0 THEN st
    ELSE LET kept     == SelectSeq(lst, LAMBDA m : HasMetId(st.mets, MetId(m)))
             existing == Restrict(st.ics, Range(kept) \cap DOMAIN st.ics)
         IN  Record(DelIcs(st, kept), <<[Entry EXCEPT !.k = "ic_update", !.d = existing]>>)

RECURSIVE remove_metabolites(_, _, _, _)
RECURSIVE remove_reactions(_, _, _, _, _)
RECURSIVE RemMetRxns(_, _, _, _, _)
\* for rxn in list(metab._reaction)
RemMetRxns(st, metab, rs, destructive, flips) ==
    IF st.err # "none" \/ Len(rs) = 0 THEN st
    ELSE LET rxn == Head(rs)
             st1 == IF ~destructive
                    THEN IF metab \notin DOMAIN st.rm[rxn] THEN Raise(st, "KeyError")
                         ELSE subtract_metabolites(st, rxn, metab)
                    \* rxn.remove_from_model(): self._model.remove_reactions([self])
                    ELSE IF rxn \notin st.rmod THEN Raise(st, "AttributeError")
                         ELSE remove_reactions(st, <<rxn>>, FALSE, FALSE, flips)
         IN  RemMetRxns(st1, metab, Tail(rs), destructive, flips)

RECURSIVE RemMetLoop(_, _, _, _)
\* for metab in metabolite_list
RemMetLoop(st, lst, destructive, flips) ==
    IF st.err # "none" \/ Len(lst) = 0 THEN st
    ELSE RemMetLoop(RemMetRxns(st, Head(lst), RxnSeq(st.mr[Head(lst)]), destructive, flips),
                    Tail(lst), destructive, flips)

remove_metabolites(st, lst, destructive, flips) ==
    IF st.err # "none" THEN st
    ELSE IF DupMetIds(lst) THEN Raise(st, "ValueError")
    ELSE IF Len(lst) = 0 THEN st
    ELSE LET kept == SelectSeq(lst, LAMBDA m : HasMetId(st.mets, MetId(m)))
             st1  == RemMetLoop(st, kept, destructive, flips)
             st2  == remove_initial_conditions(st1, kept)
             sub  == DictListISub(st2.mets, kept)
             st3  == IF st2.err # "none" THEN st2
                     ELSE [st2 EXCEPT !.mets = sub.seq, !.err = sub.err]
         IN  Record(st3, <<[Entry EXCEPT !.k = "mets_iadd", !.lst = kept]>>)

RECURSIVE RemRxnMets(_, _, _, _, _)
\* for metab in rxn._metabolites
RemRxnMets(st, rxn, keys, remove_orphans, flips) ==
    IF st.err # "none" \/ Len(keys) = 0 THEN st
    ELSE LET metab == Head(keys)
         IN  IF rxn \notin st.mr[metab] THEN RemRxnMets(st, rxn, Tail(keys), remove_orphans, flips)
             ELSE LET st1 == [st EXCEPT !.mr[metab] = @ \ {rxn}]
                      st2 == IF remove_orphans /\ st1.mr[metab] = {}
                             THEN remove_metabolites(st1, <<metab>>, FALSE, flips)
                             ELSE st1
                  IN  RemRxnMets(
                          Record(st2, <<[Entry EXCEPT !.k = "mr_add",
                                                      !.x = metab, !.y = rxn]>>),
                          rxn, Tail(keys), remove_orphans, flips)

RECURSIVE RemRxnGenes(_, _, _, _)
\* for gene in rxn._genes
RemRxnGenes(st, rxn, gs, remove_orphans) ==
    IF st.err # "none" \/ Len(gs) = 0 THEN st
    ELSE LET gene == Head(gs)
         IN  IF rxn \notin st.gr[gene] THEN RemRxnGenes(st, rxn, Tail(gs), remove_orphans)
             ELSE LET st1 == [st EXCEPT !.gr[gene] = @ \ {rxn}]
                      st2 == IF remove_orphans /\ st1.gr[gene] = {}
                             THEN IF gene \notin Range(st1.genes)
                                  THEN Raise(st1, "ValueError")
                                  ELSE Record([st1 EXCEPT !.genes =
                                                  SelectSeq(@, LAMBDA g : g # gene)],
                                              <<[Entry EXCEPT !.k = "genes_add",
                                                              !.x = gene]>>)
                             ELSE st1
                  IN  RemRxnGenes(
                          Record(st2, <<[Entry EXCEPT !.k = "gr_add",
                                                      !.x = gene, !.y = rxn]>>),
                          rxn, Tail(gs), remove_orphans)

RECURSIVE RemRxnLoop(_, _, _, _)
\* for rxn in reaction_list
RemRxnLoop(st, lst, remove_orphans, flips) ==
    IF st.err # "none" \/ Len(lst) = 0 THEN st
    ELSE LET rxn == Head(lst)
             st1 == [st EXCEPT !.rmod = @ \ {rxn}]
             st2 == RemRxnMets(st1, rxn, KeySeq(DOMAIN st1.rm[rxn], flips),
                               remove_orphans, flips)
             st3 == RemRxnGenes(st2, rxn, GeneSeq(RxnGenes(rxn)), remove_orphans)
         IN  RemRxnLoop(Record(st3, SetModelEntries(<<rxn>>, "self")),
                        Tail(lst), remove_orphans, flips)

remove_reactions(st, lst, remove_orphans, update_stoichiometry, flips) ==
    IF st.err # "none" THEN st
    ELSE IF DupRxnIds(lst) THEN Raise(st, "ValueError")
    ELSE IF Len(lst) = 0 THEN st
    ELSE LET kept == SelectSeq(lst, LAMBDA r : HasRxnId(st.rxns, RxnId(r)))
             st1  == RemRxnLoop(st, kept, remove_orphans, flips)
             sub  == DictListISub(st1.rxns, kept)
             st2  == IF st1.err # "none" THEN st1
                     ELSE [st1 EXCEPT !.rxns = sub.seq, !.err = sub.err]
             st3  == IF update_stoichiometry THEN update_S(st2, FALSE, <<>>, NoArg, NoDtype, TRUE) ELSE st2
         IN  Record(st3,
                    <<[Entry EXCEPT !.k = "rxns_iadd", !.lst = kept]>>
                    \o SetModelEntries(kept, "self")
                    \o (IF update_stoichiometry
                        THEN <<[Entry EXCEPT !.k = "update_S", !.n = 1, !.lst = kept]>>
                        ELSE <<>>))

(***************************************************************************)
(* Custom rates and custom parameters.  A rate expression is the set of    *)
(* the symbols it mentions; the calling code writes one of three forms.    *)
(***************************************************************************)
RateForms == {"kf_R1*p1", "p1*p2", "kf_R1"}

\* expressions.create_custom_rate(reaction, custom_rate, custom_param_list):
\* the symbolic expression of the form
create_custom_rate(reaction, custom_rate, custom_param_list) ==
    CASE custom_rate = "kf_R1*p1" -> {"kf_R1", "p1"}
      [] custom_rate = "p1*p2"    -> {"p1", "p2"}
      [] OTHER                    -> {"kf_R1"}

\* the custom_parameters dictionaries the calling code passes (empty for None)
ParamInputs == {EmptyFn, "p1" :> 1, ("p1" :> 2) @@ ("p2" :> 1)}

SymOrder == <<"kf_R1", "p1", "p2">>

\* the symbols of a set in iteration order; flipped reverses it
SymSeq(D, flipped) ==
    LET sorted == SelectSeq(SymOrder, LAMBDA x : x \in D)
    IN  IF flipped THEN Reverse(sorted) ELSE sorted

StRates(st) == st.rd[Len(st.rd)]

StParams(st) == st.pd[Len(st.pd)]

add_custom_rate(st, reaction, custom_rate, custom_parameters) ==
    LET existing_customs == StParams(st)
        \* re.search(custom_param, custom_rate) for the parameters already known
        found == {p \in DOMAIN existing_customs :
                     p \in create_custom_rate(reaction, custom_rate, {})}
        custom_param_list == (DOMAIN custom_parameters) \cup found
        expression == create_custom_rate(reaction, custom_rate, custom_param_list)
        top == Len(st.rd)
        st1 == [st EXCEPT !.rd[top] = Update(@, reaction :> expression),
                          !.pd[top] = Update(@, custom_parameters)]
        st2 == Record(st1, <<[Entry EXCEPT !.k = "cr_pop", !.x = reaction, !.n = top]>>)
    IN  IF ~InContext THEN st1
        \* partial((self._custom_parameters.pop, key)): partial of a tuple
        ELSE IF custom_param_list # {} THEN Raise(st2, "TypeError")
        \* partial(self._custom_parameters.update, existing_customs): the
        \* dictionary updated with itself
        ELSE Record(st2, <<[Entry EXCEPT !.k = "cp_update_self", !.n = top]>>)

RECURSIVE DelParams(_, _)
\* for sym in symbols: del self._custom_parameters[str(sym)]
DelParams(st, syms) ==
    IF st.err # "none" \/ Len(syms) = 0 THEN st
    ELSE IF Head(syms) \notin DOMAIN StParams(st) THEN Raise(st, "KeyError")
    ELSE DelParams([st EXCEPT !.pd[Len(st.pd)] = Without(@, {Head(syms)})], Tail(syms))

remove_custom_rate(st, reaction, flipped) ==
    IF reaction \notin DOMAIN StRates(st) THEN Raise(st, "KeyError")
    ELSE LET top == Len(st.rd)
             custom_rate_to_remove == StRates(st)[reaction]
             st1 == [st EXCEPT !.rd[top] = Without(@, {reaction})]
             other_syms == UNION {StRates(st1)[r] : r \in DOMAIN StRates(st1)}
             symbols == custom_rate_to_remove \ other_syms
             existing == Restrict(StParams(st1), symbols \cap DOMAIN StParams(st1))
         IN  IF InContext /\ ~(symbols \subseteq DOMAIN StParams(st1))
             THEN Raise(st1, "KeyError")
             ELSE Record(DelParams(st1, SymSeq(symbols, flipped)),
                         <<[Entry EXCEPT !.k = "cr_update", !.n = top,
                                         !.d = reaction :> custom_rate_to_remove],
                           [Entry EXCEPT !.k = "cp_update", !.n = top, !.d = existing]>>)

\* self._custom_rates = {}; self._custom_parameters = {}: both names are bound
\* to new dictionaries; the old ones live on in the recorded reversal actions
reset_custom_rates(st) ==
    IF InContext THEN [st EXCEPT !.rd = Append(@, EmptyFn), !.pd = Append(@, EmptyFn)]
    ELSE [st EXCEPT !.rd = <<EmptyFn>>, !.pd = <<EmptyFn>>]

(***************************************************************************)
(* Fixed concentrations, the rate map and the ODE set                      *)
(***************************************************************************)
\* MassReaction.exchange: every species of the reaction is on one side
Exchange(st, r) ==
    \/ \A m \in DOMAIN st.rm[r] : st.rm[r][m] < 0
    \/ \A m \in DOMAIN st.rm[r] : st.rm[r][m] > 0

\* MassReaction.get_external_metabolite: the identifier of the external species
get_external_metabolite(st, r) ==
    IF \E m \in DOMAIN st.rm[r] : MetId(m) = "A" THEN "A_Xt" ELSE "B_Xt"

get_external_metabolites(st) ==
    {get_external_metabolite(st, st.rxns[j]) : j \in {i \in 1..Len(st.rxns) :
                                                        Exchange(st, st.rxns[i])}}

\* the keys the calling code uses: metabolite objects, identifiers, external species
FcKeys == {"A1", "B1", "A", "A_Xt"}

\* metab in self.metabolites: DictList looks the identifier up
InMetabolites(st, key) ==
    HasMetId(st.mets, IF key \in MetObjs THEN MetId(key) ELSE key)

FcKnown(st, key) == key \in get_external_metabolites(st) \/ InMetabolites(st, key)

RECURSIVE FcUndo(_, _)
\* for key in fixed_conc_dict: pop when it was new, then update(existing_ics)
FcUndo(keys, existing) ==
    IF keys = {} THEN <<>>
    ELSE LET key == CHOOSE x \in keys : TRUE
         IN  (IF key \in DOMAIN existing THEN <<>>
              ELSE <<[Entry EXCEPT !.k = "fc_pop", !.x = key]>>)
             \o <<[Entry EXCEPT !.k = "fc_update", !.d = existing]>>
             \o FcUndo(keys \ {key}, existing)

\* a concentration that is no number
NotANumber == -999

\* isinstance(fixed_conc, (integer_types, float))
IsNumber(x) == x # NotANumber

add_fixed_concentrations(st, fixed_conc_dict) ==
    IF \E key \in DOMAIN fixed_conc_dict : ~FcKnown(st, key) THEN Raise(st, "ValueError")
    ELSE IF \E key \in DOMAIN fixed_conc_dict : ~IsNumber(fixed_conc_dict[key])
    THEN Raise(st, "TypeError")
    ELSE IF \E key \in DOMAIN fixed_conc_dict : fixed_conc_dict[key] < 0
    THEN Raise(st, "ValueError")
    ELSE LET existing_ics == Restrict(st.fc, DOMAIN fixed_conc_dict \cap DOMAIN st.fc)
         IN  Record([st EXCEPT !.fc = Update(@, fixed_conc_dict)],
                    FcUndo(DOMAIN fixed_conc_dict, existing_ics))

RECURSIVE DelFcs(_, _)
\* for metab in metabolites: del self.fixed_concentrations[metab]
DelFcs(st, lst) ==
    IF st.err # "none" \/ Len(lst) = 0 THEN st
    ELSE IF Head(lst) \notin DOMAIN st.fc THEN Raise(st, "KeyError")
    ELSE DelFcs([st EXCEPT !.fc = Without(@, {Head(lst)})], Tail(lst))

remove_fixed_concentrations(st, lst) ==
    IF \E i \in 1..Len(lst) : ~FcKnown(st, lst[i]) THEN Raise(st, "ValueError")
    ELSE LET existing_ics == Restrict(st.fc, Range(lst) \cap DOMAIN st.fc)
         IN  Record(DelFcs(st, lst),
                    <<[Entry EXCEPT !.k = "fc_update", !.d = existing_ics]>>)

\* type_dict: the prefix of the identifier, the coefficient and the reversibility
type_dict ==
    [source   |-> [prefix |-> "S", c |-> 1, reversible |-> FALSE],
     demand   |-> [prefix |-> "DM", c |-> -1, reversible |-> FALSE],
     exchange |-> [prefix |-> "EX", c |-> -1, reversible |-> TRUE]]

\* add_exchange after self.add_reactions([rxn], update_stoichiometry) left st1
exchange_added(st1, rxn, external_concentration) ==
    IF st1.err # "none" THEN st1
    ELSE Only({IF st2.err # "none" THEN st2
               ELSE [st2 EXCEPT !.ret = [none |-> FALSE, op |-> "add_exchange",
                                         rxn |-> rxn]] :
               st2 \in {add_fixed_concentrations(
                            st1, get_external_metabolite(st1, rxn) :>
                                     external_concentration)}})

\* add_exchange(metabolite, exchange_type, external_concentration,
\* update_stoichiometry=upd); the new reaction is st.ret.rxn, and st.ret is None
\* when nothing is returned
add_exchange(st, metabolite, exchange_type, external_concentration, upd) ==
    IF metabolite \notin MetObjs THEN Raise(st, "TypeError")
    ELSE IF ~exchange_type.str THEN Raise(st, "TypeError")
    ELSE IF Lower(exchange_type.text) \notin DOMAIN type_dict THEN Raise(st, "ValueError")
    ELSE LET values == type_dict[Lower(exchange_type.text)]
             rxn_id == values.prefix \o "_" \o MetId(metabolite)
             \* rxn = MassReaction(id=rxn_id, ...); rxn.add_metabolites({metabolite: c})
             rxn    == rxn_id
             st0    == [st EXCEPT !.rm = (rxn :> (metabolite :> values.c)) @@ @]
         IN  IF HasRxnId(st.rxns, rxn_id) THEN st
             ELSE Only({exchange_added(st1, rxn, external_concentration) :
                           st1 \in {add_reactions(st0, <<rxn>>, upd, FALSE)}})

\* rxn.generate_rate_law(...): the generated rate law of a reaction
GeneratedRate(r) == [custom |-> FALSE, rxn |-> r, symbols |-> {}]

CustomRate(r, expression) == [custom |-> TRUE, rxn |-> r, symbols |-> expression]

\* model.rates
rates(st) ==
    LET rate_dict == [r \in Range(st.rxns) |-> GeneratedRate(r)]
        custom    == [r \in DOMAIN StRates(st) |-> CustomRate(r, StRates(st)[r])]
    IN  IF DOMAIN StRates(st) # {} THEN Update(rate_dict, custom) ELSE rate_dict

NoOde == [none |-> TRUE, terms |-> {}]

\* -1 for a reactant of the reaction, +1 otherwise
Sign(st, m, r) == IF m \in DOMAIN st.rm[r] /\ st.rm[r][m] < 0 THEN -1 ELSE 1

\* expressions.generate_ode(metabolite)
generate_ode(st, metabolite) ==
    IF st.mr[metabolite] = {} THEN NoOde
    ELSE IF \E rxn \in st.mr[metabolite] : rxn \in st.rmod /\ rxn \in DOMAIN StRates(st)
    THEN NoOde
    ELSE [none |-> FALSE,
          terms |-> {[sign |-> Sign(st, metabolite, rxn), rate |-> GeneratedRate(rxn)] :
                        rxn \in st.mr[metabolite]}]

\* model.odes: metab.ode for the metabolites that are not keys of fixed_concentrations
odes(st) ==
    [metab \in {m \in Range(st.mets) : m \notin DOMAIN st.fc} |-> generate_ode(st, metab)]

(***************************************************************************)
(* The model after MassModel.__init__                                      *)
(***************************************************************************)
Init ==
    /\ metabolites = <<>>
    /\ reactions = <<>>
    /\ genes = <<>>
    /\ initial_conditions = EmptyFn
    /\ rxnMets = [r \in RxnObjs |-> Stoich0(r)]
    /\ metReaction = [m \in MetObjs |-> {}]
    /\ geneReaction = [g \in GeneIds |-> {r \in RxnObjs : g \in RxnGenes(r)}]
    /\ rxnModel = {}
    /\ S = NoneS
    /\ rateDicts = <<EmptyFn>>
    /\ paramDicts = <<EmptyFn>>
    /\ fixed_concentrations = EmptyFn
    /\ contexts = <<>>
    /\ snaps = <<>>
    /\ last = [op |-> "init", err |-> "none", note |-> "", n |-> 0]
    /\ kinetics = Kinetics0
    /\ returned = NoReturn
    /\ massReaction = Reaction0

\* the state a call leaves behind, with its reversal actions on the open scope
Commit(st, op, note) ==
    /\ last.n < MaxCalls
    /\ metabolites' = st.mets
    /\ reactions' = st.rxns
    /\ genes' = st.genes
    /\ initial_conditions' = st.ics
    /\ rxnMets' = st.rm
    /\ metReaction' = st.mr
    /\ geneReaction' = st.gr
    /\ rxnModel' = st.rmod
    /\ S' = st.S
    /\ rateDicts' = st.rd
    /\ paramDicts' = st.pd
    /\ fixed_concentrations' = st.fc
    /\ contexts' = IF InContext
                   THEN [contexts EXCEPT ![Len(contexts)] = @ \o st.log]
                   ELSE contexts
    /\ snaps' = [i \in 1..Len(snaps) |-> [snaps[i] EXCEPT !.ops = @ \cup {op}]]
    /\ last' = [op |-> op, err |-> st.err, note |-> note, n |-> last.n + 1]
    /\ kinetics' = st.kin
    /\ returned' = st.ret
    /\ UNCHANGED massReaction

(***************************************************************************)
(* Transactional scopes: __enter__ pushes a HistoryManager, __exit__ pops  *)
(* it and calls its reversal actions last-in-first-out.                    *)
(***************************************************************************)
\* DictList.__iadd__ / DictList.add: extend raises ValueError on a present identifier
RECURSIVE DictListIAdd(_, _, _)
DictListIAdd(seq, lst, idOf) ==
    IF Len(lst) = 0 THEN [seq |-> seq, err |-> "none"]
    ELSE IF \E i \in 1..Len(seq) : idOf[seq[i]] = idOf[Head(lst)]
    THEN [seq |-> seq, err |-> "ValueError"]
    ELSE DictListIAdd(Append(seq, Head(lst)), Tail(lst), idOf)

MetIds == [m \in MetObjs |-> MetId(m)]

RxnIds == [r \in RxnObjs |-> RxnId(r)]

GeneIdOf == [g \in GeneIds |-> g]

\* one recorded reversal action, called
ApplyEntry(st, e) ==
    CASE e.k = "mets_isub" ->
           LET r == DictListISub(st.mets, e.lst)
           IN  [st EXCEPT !.mets = r.seq, !.err = r.err]
      [] e.k = "mets_iadd" ->
           LET r == DictListIAdd(st.mets, e.lst, MetIds)
           IN  [st EXCEPT !.mets = r.seq, !.err = r.err]
      [] e.k = "rxns_isub" ->
           LET r == DictListISub(st.rxns, e.lst)
           IN  [st EXCEPT !.rxns = r.seq, !.err = r.err]
      [] e.k = "rxns_iadd" ->
           LET r == DictListIAdd(st.rxns, e.lst, RxnIds)
           IN  [st EXCEPT !.rxns = r.seq, !.err = r.err]
      [] e.k = "genes_isub" ->
           LET r == DictListISub(st.genes, e.lst)
           IN  [st EXCEPT !.genes = r.seq, !.err = r.err]
      [] e.k = "genes_add" ->
           LET r == DictListIAdd(st.genes, <<e.x>>, GeneIdOf)
           IN  [st EXCEPT !.genes = r.seq, !.err = r.err]
      [] e.k = "ic_pop" ->
           IF e.x \in DOMAIN st.ics THEN [st EXCEPT !.ics = Without(@, {e.x})]
           ELSE Raise(st, "KeyError")
      [] e.k = "ic_update" -> [st EXCEPT !.ics = Update(@, e.d)]
      [] e.k = "mr_remove" ->
           IF e.y \in st.mr[e.x] THEN [st EXCEPT !.mr[e.x] = @ \ {e.y}]
           ELSE Raise(st, "KeyError")
      [] e.k = "mr_add" -> [st EXCEPT !.mr[e.x] = @ \cup {e.y}]
      [] e.k = "gr_add" -> [st EXCEPT !.gr[e.x] = @ \cup {e.y}]
      [] e.k = "rm_add" -> [st EXCEPT !.rm[e.y] = Update(@, e.x :> e.n),
                                      !.mr[e.x] = @ \cup {e.y}]
      [] e.k = "rxn_set_model" ->
           IF e.x = "self" THEN [st EXCEPT !.rmod = @ \cup {e.y}]
           ELSE [st EXCEPT !.rmod = @ \ {e.y}]
      [] e.k = "update_S" -> update_S(st, e.n = 1, e.lst, NoArg, NoDtype, TRUE)
      [] e.k = "cr_pop" ->
           IF e.x \in DOMAIN st.rd[e.n] THEN [st EXCEPT !.rd[e.n] = Without(@, {e.x})]
           ELSE Raise(st, "KeyError")
      [] e.k = "cr_update" -> [st EXCEPT !.rd[e.n] = Update(@, e.d)]
      [] e.k = "cp_update" -> [st EXCEPT !.pd[e.n] = Update(@, e.d)]
      [] e.k = "cp_update_self" -> st
      [] e.k = "fc_pop" ->
           IF e.x \in DOMAIN st.fc THEN [st EXCEPT !.fc = Without(@, {e.x})]
           ELSE Raise(st, "KeyError")
      [] e.k = "fc_update" -> [st EXCEPT !.fc = Update(@, e.d)]
      [] OTHER -> st

RECURSIVE Reset(_, _)
\* HistoryManager.reset(): while self._history: self._history.pop()()
Reset(st, history) ==
    IF Len(history) = 0 \/ st.err # "none" THEN st
    ELSE Reset(ApplyEntry(st, history[Len(history)]),
               SubSeq(history, 1, Len(history) - 1))

\* what a scope is expected to bring back
StView(st) == [mets |-> st.mets, rxns |-> st.rxns, genes |-> st.genes,
               ics |-> st.ics, mr |-> st.mr,
               rates |-> st.rd[Len(st.rd)], params |-> st.pd[Len(st.pd)],
               fc |-> st.fc]

View == StView(Cur)

\* with model:
Enter ==
    /\ Len(contexts) < MaxDepth
    /\ contexts' = Append(contexts, <<>>)
    /\ snaps' = Append(snaps, [view |-> View, ops |-> {}])
    /\ last' = [op |-> "enter", err |-> "none", note |-> "", n |-> last.n]
    /\ UNCHANGED <<metabolites, reactions, genes, initial_conditions, rxnMets,
                   metReaction, geneReaction, rxnModel, S, rateDicts, paramDicts,
                   fixed_concentrations, kinetics, returned, massReaction>>

\* the end of the with block
Exit ==
    /\ InContext
    /\ LET context == contexts[Len(contexts)]
           st      == Reset(Cur, context)
       IN  /\ metabolites' = st.mets
           /\ reactions' = st.rxns
           /\ genes' = st.genes
           /\ initial_conditions' = st.ics
           /\ rxnMets' = st.rm
           /\ metReaction' = st.mr
           /\ geneReaction' = st.gr
           /\ rxnModel' = st.rmod
           /\ S' = st.S
           \* with the last scope gone nothing refers to the earlier dictionaries
           /\ rateDicts' = IF Len(contexts) = 1 THEN <<StRates(st)>> ELSE st.rd
           /\ paramDicts' = IF Len(contexts) = 1 THEN <<StParams(st)>> ELSE st.pd
           /\ fixed_concentrations' = st.fc
           /\ kinetics' = st.kin
           /\ returned' = NoReturn
           /\ UNCHANGED massReaction
           /\ contexts' = SubSeq(contexts, 1, Len(contexts) - 1)
           /\ snaps' = SubSeq(snaps, 1, Len(snaps) - 1)
           /\ last' = [last EXCEPT !.op = "exit", !.err = st.err,
                                   !.note = IF View = snaps[Len(snaps)].view THEN ""
                                            ELSE "undone"]

AddMetabolites ==
    \E lst \in Lists(MetObjs, MaxBatch), add_ic \in BOOLEAN :
        Commit(add_metabolites(Cur, lst, add_ic), "add_metabolites",
               IF /\ ~DupMetIds(lst)
                  /\ \E i \in 1..Len(lst) : HasMetId(metabolites, MetId(lst[i]))
                  /\ \E i \in 1..Len(lst) : ~HasMetId(metabolites, MetId(lst[i]))
               THEN "some_existing" ELSE "")

\* flipped: the coefficient maps are iterated in the other order
AddReactions ==
    \E lst \in Lists(RxnObjs, MaxBatch), upd \in BOOLEAN, flipped \in BOOLEAN :
        Commit(add_reactions(Cur, lst, upd, flipped),
               IF upd THEN "add_reactions_update" ELSE "add_reactions",
               IF /\ ~DupRxnIds(lst)
                  /\ \E i \in 1..Len(lst) : HasRxnId(reactions, RxnId(lst[i]))
                  /\ \E i \in 1..Len(lst) : ~HasRxnId(reactions, RxnId(lst[i]))
               THEN "some_existing"
               ELSE IF upd /\ ~S.none /\ ~DupRxnIds(lst)
                       /\ \E i \in 1..Len(lst) : ~HasRxnId(reactions, RxnId(lst[i]))
               THEN "patched" ELSE "")

RemoveMetabolites ==
    \E lst \in Lists(MetObjs, MaxBatch), destructive \in BOOLEAN :
        Commit(remove_metabolites(Cur, lst, destructive, FALSE), "remove_metabolites", "")

RemoveReactions ==
    \E lst \in Lists(RxnObjs, MaxBatch), orphans \in BOOLEAN, upd \in BOOLEAN,
       flipped \in BOOLEAN :
        Commit(remove_reactions(Cur, lst, orphans, upd, flipped), "remove_reactions", "")

\* model.update_S() with no reaction list
UpdateS ==
    Commit(update_S(Cur, FALSE, <<>>, NoArg, NoDtype, TRUE), "update_S", "")

Next ==
    \/ AddMetabolites
    \/ AddReactions
    \/ RemoveMetabolites
    \/ RemoveReactions
    \/ UpdateS

Spec == Init /\ [][Next]_vars

\* calls inside and outside nested scopes
\* model.remove_reactions(rxn, remove_orphans=True)
RemoveOrphaning ==
    \E rxn \in RxnObjs, flipped \in BOOLEAN :
        Commit(remove_reactions(Cur, <<rxn>>, TRUE, FALSE, flipped), "remove_reactions", "")

NextTx ==
    \/ Enter
    \/ Exit
    \/ AddMetabolites
    \/ AddReactions
    \/ RemoveOrphaning

SpecTx == Init /\ [][NextTx]_vars

(***************************************************************************)
(* Custom rates and fixed concentrations on a model that holds R1 and R2   *)
(***************************************************************************)
Blank == [mets |-> <<>>, rxns |-> <<>>, genes |-> <<>>, ics |-> EmptyFn,
          rm |-> [r \in RxnObjs |-> Stoich0(r)], mr |-> [m \in MetObjs |-> {}],
          gr |-> [g \in GeneIds |-> {r \in RxnObjs : g \in RxnGenes(r)}],
          rmod |-> {}, S |-> NoneS, rd |-> <<EmptyFn>>, pd |-> <<EmptyFn>>,
          fc |-> EmptyFn, kin |-> Kinetics0, ret |-> NoReturn,
          log |-> <<>>, err |-> "none"]

\* MassModel(); model.add_reactions([R1, R2])
InitCustom ==
    /\ contexts = <<>>
    /\ snaps = <<>>
    /\ \E st \in {add_reactions(Blank, <<"R1", "R2">>, FALSE, FALSE)} :
           /\ metabolites = st.mets
           /\ reactions = st.rxns
           /\ genes = st.genes
           /\ initial_conditions = st.ics
           /\ rxnMets = st.rm
           /\ metReaction = st.mr
           /\ geneReaction = st.gr
           /\ rxnModel = st.rmod
           /\ S = st.S
           /\ rateDicts = st.rd
           /\ paramDicts = st.pd
           /\ fixed_concentrations = st.fc
    /\ last = [op |-> "add_reactions", err |-> "none", note |-> "", n |-> 1]
    /\ kinetics = Kinetics0
    /\ returned = NoReturn
    /\ massReaction = Reaction0

CustomRxns == {"R1", "R2"}

AddCustomRate ==
    \E reaction \in CustomRxns, custom_rate \in RateForms, custom_parameters \in ParamInputs :
        Commit(add_custom_rate(Cur, reaction, custom_rate, custom_parameters),
               "add_custom_rate", "")

RemoveCustomRate ==
    \E reaction \in CustomRxns, flipped \in BOOLEAN :
        Commit(remove_custom_rate(Cur, reaction, flipped), "remove_custom_rate", "")

ResetCustomRates ==
    /\ Len(rateDicts) <= MaxDicts
    /\ Commit(reset_custom_rates(Cur), "reset_custom_rates", "")

AddFixedConcentrations ==
    \E keys \in {K \in SUBSET FcKeys : K # {} /\ Cardinality(K) <= MaxBatch}, v \in {1, 2} :
        Commit(add_fixed_concentrations(Cur, [k \in keys |-> v]),
               "add_fixed_concentrations", "")

RemoveFixedConcentrations ==
    \E lst \in Lists(FcKeys, MaxBatch) :
        Commit(remove_fixed_concentrations(Cur, lst), "remove_fixed_concentrations", "")

NextCustom ==
    \/ Enter
    \/ Exit
    \/ AddCustomRate
    \/ RemoveCustomRate
    \/ ResetCustomRates
    \/ AddFixedConcentrations
    \/ RemoveFixedConcentrations

SpecCustom == InitCustom /\ [][NextCustom]_vars

(***************************************************************************)
(* Properties of the registries and the stoichiometric matrix              *)
(***************************************************************************)
\* the signed coefficient of the registered metabolite m in reaction r, 0 if absent
Coefficient(m, r) ==
    IF \E k \in DOMAIN rxnMets[r] : MetId(k) = MetId(m)
    THEN rxnMets[r][CHOOSE k \in DOMAIN rxnMets[r] : MetId(k) = MetId(m)]
    ELSE 0

\* model.S: update_S(update_model=False) with no reaction list
SAccessor == _create_stoichiometric_matrix(Cur, kinetics.matrix_type, kinetics.dtype)

\* C1: after any sequence of add_metabolites, add_reactions, remove_metabolites
\* and remove_reactions, the S accessor returns a matrix (nothing only while a
\* registry is empty) with one row per registered metabolite and one column
\* per registered reaction, in registry order, whose entry (i, j) is the
\* coefficient of metabolite i in reaction j, 0 when it takes no part.
C1_MatrixMatchesRegistries ==
    /\ SAccessor.err = "none"
    /\ SAccessor.s.none => Len(metabolites) = 0 \/ Len(reactions) = 0
    /\ ~SAccessor.s.none =>
          /\ SAccessor.s.nr = Len(metabolites)
          /\ SAccessor.s.nc = Len(reactions)
          /\ \A i \in 1..Len(metabolites), j \in 1..Len(reactions) :
                SAccessor.s.val[<<i, j>>] = Coefficient(metabolites[i], reactions[j])

\* C2: when the model holds a cached matrix and reactions have just been
\* appended to the reaction registry, update_S(reaction_list, update_model=True)
\* caches the matrix a rebuild from scratch produces at that moment.
C2_PatchEqualsRebuild ==
    last.note = "patched" /\ last.err = "none" =>
        /\ SAccessor.err = "none"
        /\ S.nr = SAccessor.s.nr
        /\ S.nc = SAccessor.s.nc
        /\ S.val = SAccessor.s.val

UniqueIds ==
    /\ \A i, j \in 1..Len(metabolites) :
          i # j => MetId(metabolites[i]) # MetId(metabolites[j])
    /\ \A i, j \in 1..Len(reactions) :
          i # j => RxnId(reactions[i]) # RxnId(reactions[j])

\* C10: a batch of metabolites or reactions, some of whose identifiers are
\* already in the model, is added without error: the registered entities stay
\* where they are and the other entities are appended in batch order; the
\* identifiers of each registry are pairwise distinct in every reachable state.
C10_DuplicatesSkipped ==
    /\ UniqueIds
    /\ \A lst \in Lists(MetObjs, MaxBatch), add_ic \in BOOLEAN :
          (~DupMetIds(lst) /\ \E i \in 1..Len(lst) : HasMetId(metabolites, MetId(lst[i])))
          => LET after == add_metabolites(Cur, lst, add_ic)
             IN  /\ after.err = "none"
                 /\ after.mets = metabolites \o
                       SelectSeq(lst, LAMBDA m : ~HasMetId(metabolites, MetId(m)))
    /\ \A lst \in Lists(RxnObjs, MaxBatch), upd \in BOOLEAN, flipped \in BOOLEAN :
          (~DupRxnIds(lst) /\ \E i \in 1..Len(lst) : HasRxnId(reactions, RxnId(lst[i])))
          => LET after == add_reactions(Cur, lst, upd, flipped)
             IN  /\ after.err = "none"
                 /\ after.rxns = reactions \o
                       SelectSeq(lst, LAMBDA r : ~HasRxnId(reactions, RxnId(r)))

(***************************************************************************)
(* Properties of the transactional scopes                                  *)
(***************************************************************************)
AddOps == {"add_metabolites", "add_reactions"}

RegistryView(v) == [mets |-> v.mets, rxns |-> v.rxns, genes |-> v.genes,
                    ics |-> v.ics, mr |-> v.mr]

\* C6: leaving a scope in which only add_metabolites and add_reactions
\* (without stoichiometry update) ran restores the metabolite, reaction and
\* gene registries, the initial-condition map and every metabolite's set of
\* referencing reactions to their values at scope entry.
C6_AddsUndone ==
    [][Len(contexts') < Len(contexts) /\ snaps[Len(snaps)].ops \subseteq AddOps
       => /\ last'.err = "none"
          /\ RegistryView(View') = RegistryView(snaps[Len(snaps)].view)]_vars

\* C7: scopes nest as a stack: leaving a scope pops only the newest log,
\* completes, and brings the model back to what it was when that scope was
\* entered, so what the enclosing scope did before stays in place until it
\* is left in turn; with no scope open nothing is recorded.
C7_ScopesNest ==
    [][/\ Len(contexts') < Len(contexts) =>
             /\ contexts' = SubSeq(contexts, 1, Len(contexts) - 1)
             /\ last'.err = "none"
             /\ View' = snaps[Len(snaps)].view
       /\ contexts = <<>> /\ last'.op # "enter" => contexts' = <<>>]_vars

(***************************************************************************)
(* Properties of the custom rates, the fixed concentrations and the ODEs   *)
(***************************************************************************)
\* the ODE the rate map calls for: the signed sum of the rates of the
\* reactions the metabolite takes part in
OdeFromRates(m) ==
    [none |-> FALSE,
     terms |-> {[sign |-> Sign(Cur, m, r), rate |-> rates(Cur)[r]] : r \in metReaction[m]}]

\* C3: a custom rate registered for reaction R replaces R's generated rate law
\* in the rate map and in the ODE of every metabolite that takes part in R:
\* that ODE is the signed sum in which R contributes its custom expression.
C3_CustomRateSupersedes ==
    \A r \in DOMAIN CurRates \cap Range(reactions) :
        /\ rates(Cur)[r] = CustomRate(r, CurRates[r])
        /\ \A m \in DOMAIN odes(Cur) : r \in metReaction[m] => odes(Cur)[m] = OdeFromRates(m)

\* C4: the ODE set has no entry for a metabolite with a fixed concentration,
\* registered under the metabolite object or under its identifier, and has an
\* entry for every other metabolite of the registry.
C4_FixedHaveNoOde ==
    DOMAIN odes(Cur) =
        {m \in Range(metabolites) : m \notin DOMAIN fixed_concentrations
                                     /\ MetId(m) \notin DOMAIN fixed_concentrations}

\* C5: remove_custom_rate(R) completes, deletes R's custom rate and removes
\* from the custom-parameter map exactly the custom parameters of R's rate
\* that no remaining custom rate mentions, also when R's rate mentions
\* symbols that are not custom parameters.
C5_RemoveCustomRate ==
    \A R \in DOMAIN CurRates, flipped \in BOOLEAN :
        LET after     == remove_custom_rate(Cur, R, flipped)
            remaining == UNION {CurRates[r] : r \in (DOMAIN CurRates) \ {R}}
            unused    == (CurRates[R] \cap DOMAIN CurParams) \ remaining
        IN  /\ after.err = "none"
            /\ StRates(after) = Without(CurRates, {R})
            /\ StParams(after) = Without(CurParams, unused)

\* C8: add_custom_rate called inside a scope completes, and leaving the scope
\* brings the custom-rate map and the custom-parameter map back to their
\* values at scope entry.
C8_AddCustomRateUndone ==
    [][/\ last'.op = "add_custom_rate" /\ last'.n # last.n /\ InContext
             => last'.err = "none"
       /\ Len(contexts') < Len(contexts) /\ snaps[Len(snaps)].ops = {"add_custom_rate"}
             => /\ last'.err = "none"
                /\ CurRates' = snaps[Len(snaps)].view.rates
                /\ CurParams' = snaps[Len(snaps)].view.params]_vars

\* C9: reset_custom_rates leaves the custom-rate map and the custom-parameter
\* map empty, and when it ran inside a scope, leaving the scope brings both
\* maps back to their contents at scope entry.
C9_ResetCustomRates ==
    [][/\ last'.op = "reset_custom_rates" /\ last'.n # last.n
             => last'.err = "none" /\ CurRates' = EmptyFn /\ CurParams' = EmptyFn
       /\ Len(contexts') < Len(contexts) /\ snaps[Len(snaps)].ops = {"reset_custom_rates"}
             => /\ last'.err = "none"
                /\ CurRates' = snaps[Len(snaps)].view.rates
                /\ CurParams' = snaps[Len(snaps)].view.params]_vars

(***************************************************************************)
(* Removal of metabolites                                                  *)
(***************************************************************************)
\* the registered reactions that hold a coefficient for the metabolite
Referencing(m) == {r \in Range(reactions) : m \in DOMAIN rxnMets[r]}

\* C11: for every metabolite of the model, with or without a recorded initial
\* condition, remove_metabolites([M]) completes: non-destructively it takes M
\* out of the registry and out of the coefficient map of every reaction that
\* referenced it and keeps those reactions; destructively it takes M out
\* together with every reaction that referenced it.
C11_RemoveMetabolitesCompletes ==
    \A m \in Range(metabolites) :
        LET keep == remove_metabolites(Cur, <<m>>, FALSE, FALSE)
            drop == remove_metabolites(Cur, <<m>>, TRUE, FALSE)
        IN  /\ keep.err = "none"
            /\ m \notin Range(keep.mets)
            /\ \A r \in Referencing(m) :
                   m \notin DOMAIN keep.rm[r] /\ r \in Range(keep.rxns)
            /\ drop.err = "none"
            /\ m \notin Range(drop.mets)
            /\ \A r \in Referencing(m) : r \notin Range(drop.rxns)

(***************************************************************************)
(* Rate laws (expressions.py).  A reaction handed to the generator is a    *)
(* record of its identifier, its coefficient map, its reversibility and    *)
(* its exchange flag.  A symbolic expression is a sum of signed monomials; *)
(* a monomial maps each factor to its exponent.                            *)
(***************************************************************************)
\* the species of the reactions whose rate laws are generated
RateSpecies == {"A1", "B1", "W1", "H1"}

\* metab.id
SpeciesId(m) == CASE m = "W1" -> "h2o" [] m = "H1" -> "h" [] OTHER -> MetId(m)

\* metab.elements
Elements(m) == CASE m = "W1" -> "H2O" [] m = "H1" -> "H" [] OTHER -> "C"

SpeciesOrder == <<"A1", "A2", "B1", "W1", "H1">>

\* the largest coefficient of a species
MaxCoeff == 2

\* reaction.reactants / reaction.products in iteration order
Side(mets, sign) ==
    SelectSeq(SpeciesOrder, LAMBDA m : m \in DOMAIN mets /\ mets[m] * sign > 0)

reactants(reaction) == Side(reaction.mets, -1)

products(reaction) == Side(reaction.mets, 1)

\* reaction.exchange
IsExchange(reaction) == reaction.exchange

\* reaction.get_external_metabolite: the external species of the first species
ExternalId(reaction) ==
    LET first == Head(SelectSeq(SpeciesOrder, LAMBDA m : m \in DOMAIN reaction.mets))
    IN  CASE SpeciesId(first) = "A" -> "A_Xt" [] SpeciesId(first) = "B" -> "B_Xt"
          [] SpeciesId(first) = "h2o" -> "h2o_Xt" [] OTHER -> "h_Xt"

\* reaction.get_coefficient(metab.id)
get_coefficient(reaction, id) ==
    reaction.mets[CHOOSE m \in DOMAIN reaction.mets : SpeciesId(m) = id]

Abs(x) == IF x < 0 THEN -x ELSE x

\* reaction.copy() less the water and hydrogen species, exchanges left as they are
_ignore_h_and_h2o(reaction) ==
    IF IsExchange(reaction) THEN reaction
    ELSE [reaction EXCEPT !.mets =
             Without(@, {m \in DOMAIN @ : Elements(m) \in {"H2O", "H"}})]

\* the factors of a monomial
Func(id) == [k |-> "func", id |-> id]

Sym(id) == [k |-> "sym", id |-> id]

Const(k, reaction) == [k |-> k, id |-> reaction.id]

One == EmptyFn

\* sp.Mul(mono, sp.Pow(factor, e))
MulPow(mono, factor, e) ==
    IF factor \notin DOMAIN mono THEN mono @@ (factor :> e)
    ELSE IF mono[factor] + e = 0 THEN Without(mono, {factor})
    ELSE [mono EXCEPT ![factor] = @ + e]

RECURSIVE MulSpecies(_, _, _)
\* for metab in side: rate = sp.Mul(rate, metab(t) or sp.Pow(metab(t), coeff))
MulSpecies(mono, reaction, side) ==
    IF Len(side) = 0 THEN mono
    ELSE MulSpecies(MulPow(mono, Func(SpeciesId(Head(side))),
                           Abs(get_coefficient(reaction, SpeciesId(Head(side))))),
                    reaction, Tail(side))

\* one side of a symbolic rate law, multiplied onto what is there already
SideExpr(mono, reaction, side) ==
    IF IsExchange(reaction) /\ Len(side) = 0
    THEN MulPow(mono, Sym(ExternalId(reaction)), 1)
    ELSE MulSpecies(mono, reaction, side)

Plus(mono) == [sign |-> 1, mono |-> mono]

Minus(mono) == [sign |-> -1, mono |-> mono]

_generate_rate_expr_type_1(reaction) ==
    LET rate_law_f == SideExpr(One, reaction, reactants(reaction))
        rate_law_r == SideExpr(MulPow(One, Const("Keq", reaction), -1),
                               reaction, products(reaction))
        kf == Const("kf", reaction)
    IN  IF ~reaction.reversible THEN {Plus(MulPow(rate_law_f, kf, 1))}
        ELSE {Plus(MulPow(rate_law_f, kf, 1)), Minus(MulPow(rate_law_r, kf, 1))}

\* the type 2 law built with the forward constant on the reverse term
_generate_rate_expr_type_2_kf(reaction) ==
    LET rate_law_f == SideExpr(MulPow(One, Const("kf", reaction), 1),
                               reaction, reactants(reaction))
        rate_law_r == SideExpr(MulPow(One, Const("kf", reaction), 1),
                               reaction, products(reaction))
    IN  IF ~reaction.reversible THEN {Plus(rate_law_f)}
        ELSE {Plus(rate_law_f), Minus(rate_law_r)}

_generate_rate_expr_type_2(reaction) ==
    LET rate_law_f == SideExpr(MulPow(One, Const("kf", reaction), 1),
                               reaction, reactants(reaction))
        rate_law_r == SideExpr(MulPow(One, Const("kr", reaction), 1),
                               reaction, products(reaction))
    IN  IF ~reaction.reversible THEN {Plus(rate_law_f)}
        ELSE {Plus(rate_law_f), Minus(rate_law_r)}

\* the type 3 law built with the forward constant where the reverse one belongs
_generate_rate_expr_type_3_kf(reaction) ==
    LET rate_law_f == SideExpr(MulPow(One, Const("Keq", reaction), 1),
                               reaction, reactants(reaction))
        rate_law_r == SideExpr(One, reaction, products(reaction))
        kf == Const("kf", reaction)
    IN  IF ~reaction.reversible THEN {Plus(MulPow(rate_law_f, kf, 1))}
        ELSE {Plus(MulPow(rate_law_f, kf, 1)), Minus(MulPow(rate_law_r, kf, 1))}

_generate_rate_expr_type_3(reaction) ==
    LET rate_law_f == SideExpr(MulPow(One, Const("Keq", reaction), 1),
                               reaction, reactants(reaction))
        rate_law_r == SideExpr(One, reaction, products(reaction))
        kr == Const("kr", reaction)
    IN  IF ~reaction.reversible THEN {Plus(MulPow(rate_law_f, kr, 1))}
        ELSE {Plus(MulPow(rate_law_f, kr, 1)), Minus(MulPow(rate_law_r, kr, 1))}

(***************************************************************************)
(* The textual rate laws.  A string is the sequence of its tokens.         *)
(***************************************************************************)
Tok(k, id, n) == [k |-> k, id |-> id, n |-> n]

Op(k) == Tok(k, "", 0)

\* "%s(t)" % identifier
TimeDep(id) == Tok("func", id, 0)

\* reaction._sym_kf, reaction._sym_kr, reaction._sym_Keq
ConstTok(k, reaction) == Tok(k, reaction.id, 0)

RECURSIVE LStrip(_)
\* str.lstrip("*")
LStrip(text) ==
    IF Len(text) > 0 /\ Head(text) = Op("*") THEN LStrip(Tail(text)) ELSE text

RECURSIVE RStrip(_)
\* str.rstrip("*")
RStrip(text) ==
    IF Len(text) > 0 /\ text[Len(text)] = Op("*")
    THEN RStrip(SubSeq(text, 1, Len(text) - 1)) ELSE text

\* "%s(t)" or "%s(t)**%s" for one species
SpeciesText(reaction, metab) ==
    LET coeff == Abs(get_coefficient(reaction, SpeciesId(metab)))
    IN  IF coeff = 1 THEN <<TimeDep(SpeciesId(metab))>>
        ELSE <<TimeDep(SpeciesId(metab)), Op("**"), Tok("num", "", coeff)>>

RECURSIVE Leading(_, _)
\* for metab in side: rate_law += "*%s(t)" or "*%s(t)**%s"
Leading(reaction, side) ==
    IF Len(side) = 0 THEN <<>>
    ELSE <<Op("*")>> \o SpeciesText(reaction, Head(side)) \o Leading(reaction, Tail(side))

RECURSIVE Trailing(_, _)
\* for metab in side: rate_law += "%s(t)*" or "%s(t)**%s*"
Trailing(reaction, side) ==
    IF Len(side) = 0 THEN <<>>
    ELSE SpeciesText(reaction, Head(side)) \o <<Op("*")>> \o Trailing(reaction, Tail(side))

\* the forward part, the same in the three textual generators
ForwardText(reaction) ==
    IF IsExchange(reaction) /\ Len(reactants(reaction)) = 0
    THEN <<Op("*"), TimeDep(ExternalId(reaction))>>
    ELSE Leading(reaction, reactants(reaction))

_generate_rate_type_1(reaction) ==
    LET rate_law == ForwardText(reaction)
        head     == <<ConstTok("kf", reaction), Op("*"), Op("(")>>
                        \o LStrip(rate_law) \o <<Op(" - ")>>
        reverse  == IF IsExchange(reaction) /\ Len(products(reaction)) = 0
                    THEN <<Op("*"), TimeDep(ExternalId(reaction))>>
                    ELSE Trailing(reaction, products(reaction))
    IN  IF ~reaction.reversible THEN <<ConstTok("kf", reaction)>> \o rate_law
        ELSE RStrip(head \o reverse)
                 \o <<Op(" / "), ConstTok("Keq", reaction), Op(")")>>

_generate_rate_type_2(reaction) ==
    LET rate_law == ForwardText(reaction)
        head     == <<ConstTok("kf", reaction)>> \o rate_law
                        \o <<Op(" - "), ConstTok("kr", reaction)>>
        reverse  == IF IsExchange(reaction) /\ Len(products(reaction)) = 0
                    THEN <<Op("*"), TimeDep(ExternalId(reaction))>>
                    ELSE Leading(reaction, products(reaction))
    IN  IF ~reaction.reversible THEN <<ConstTok("kf", reaction)>> \o rate_law
        ELSE head \o reverse

_generate_rate_type_3(reaction) ==
    LET rate_law == ForwardText(reaction)
        head     == <<ConstTok("kr", reaction), Op("*"), Op("("),
                      ConstTok("Keq", reaction)>> \o rate_law \o <<Op(" - ")>>
        reverse  == IF IsExchange(reaction) /\ Len(products(reaction)) = 0
                    THEN <<TimeDep(ExternalId(reaction)), Op("*")>>
                    ELSE Trailing(reaction, products(reaction))
    IN  IF ~reaction.reversible
        THEN <<ConstTok("kr", reaction), Op("*"), ConstTok("Keq", reaction)>> \o rate_law
        ELSE RStrip(head \o reverse) \o <<Op(")")>>

NoRate == [none |-> TRUE, text |-> <<>>, expr |-> {}]

\* expressions.generate_rate_law(reaction, rate_type, sympy_expr): both forms are
\* built; sympy_expr chooses the one that is returned
generate_rate_law(reaction, rate_type) ==
    IF DOMAIN reaction.mets = {} THEN NoRate
    ELSE LET rxn == _ignore_h_and_h2o(reaction)
         IN  [none |-> FALSE,
              text |-> CASE rate_type = 1 -> _generate_rate_type_1(rxn)
                         [] rate_type = 2 -> _generate_rate_type_2(rxn)
                         [] OTHER         -> _generate_rate_type_3(rxn),
              expr |-> CASE rate_type = 1 -> _generate_rate_expr_type_1(rxn)
                         [] rate_type = 2 -> _generate_rate_expr_type_2(rxn)
                         [] OTHER         -> _generate_rate_expr_type_3(rxn)]

\* sp.Pow(mono, -1)
Inverse(mono) == [f \in DOMAIN mono |-> -mono[f]]

\* sp.Mul(a, b)
MonoMul(a, b) ==
    LET both == [f \in DOMAIN a \cup DOMAIN b |->
                    (IF f \in DOMAIN a THEN a[f] ELSE 0)
                  + (IF f \in DOMAIN b THEN b[f] ELSE 0)]
    IN  Restrict(both, {f \in DOMAIN both : both[f] # 0})

_get_mass_action_ratio_expr(reaction) ==
    LET reactant_bits == SideExpr(One, reaction, reactants(reaction))
        product_bits  == SideExpr(One, reaction, products(reaction))
    IN  MonoMul(product_bits, Inverse(reactant_bits))

get_mass_action_ratio(reaction) ==
    {Plus(_get_mass_action_ratio_expr(_ignore_h_and_h2o(reaction)))}

get_disequilibrium_ratio(reaction) ==
    LET rxn == _ignore_h_and_h2o(reaction)
    IN  {Plus(MulPow(_get_mass_action_ratio_expr(rxn), Const("Keq", rxn), -1))}

(***************************************************************************)
(* What a textual rate law denotes: the text is read as a difference of    *)
(* products, with one parenthesised difference allowed after a leading     *)
(* product.  A text with an operator that lacks an operand denotes nothing.*)
(***************************************************************************)
Malformed == {[sign |-> 0, mono |-> One]}

IsAtom(tok) == tok.k \in {"func", "kf", "kr", "Keq"}

FactorOf(tok) == IF tok.k = "func" THEN Func(tok.id) ELSE [k |-> tok.k, id |-> tok.id]

RECURSIVE ParseTerm(_, _, _, _)
\* the monomial of a product; e is +1 after "*" and -1 after " / "
ParseTerm(text, mono, e, wantFactor) ==
    IF Len(text) = 0 THEN [ok |-> ~wantFactor, mono |-> mono]
    ELSE IF wantFactor
    THEN IF ~IsAtom(Head(text)) THEN [ok |-> FALSE, mono |-> mono]
         ELSE IF Len(text) >= 3 /\ text[2] = Op("**") /\ text[3].k = "num"
         THEN ParseTerm(SubSeq(text, 4, Len(text)),
                        MulPow(mono, FactorOf(Head(text)), e * text[3].n), 1, FALSE)
         ELSE ParseTerm(Tail(text), MulPow(mono, FactorOf(Head(text)), e), 1, FALSE)
    ELSE IF Head(text) = Op("*") THEN ParseTerm(Tail(text), mono, 1, TRUE)
    ELSE IF Head(text) = Op(" / ") THEN ParseTerm(Tail(text), mono, -1, TRUE)
    ELSE [ok |-> FALSE, mono |-> mono]

\* the position of the first token tok, or 0
FirstAt(text, tok) ==
    IF \E i \in 1..Len(text) : text[i] = tok
    THEN CHOOSE i \in 1..Len(text) : text[i] = tok /\ \A j \in 1..(i - 1) : text[j] # tok
    ELSE 0

RECURSIVE ParseDifference(_, _)
\* term - term - ...: the first term counts positive, the others negative
ParseDifference(text, sign) ==
    LET cut  == FirstAt(text, Op(" - "))
        term == ParseTerm(IF cut = 0 THEN text ELSE SubSeq(text, 1, cut - 1), One, 1, TRUE)
        rest == IF cut = 0 THEN {}
                ELSE ParseDifference(SubSeq(text, cut + 1, Len(text)), -1)
    IN  IF ~term.ok \/ rest = Malformed THEN Malformed
        ELSE {[sign |-> sign, mono |-> term.mono]} \cup rest

\* the expression a text denotes
Denote(text) ==
    LET open == FirstAt(text, Op("("))
    IN  IF open = 0 THEN ParseDifference(text, 1)
        ELSE IF open < 3 \/ text[Len(text)] # Op(")") \/ text[open - 1] # Op("*")
        THEN Malformed
        ELSE LET outer == ParseTerm(SubSeq(text, 1, open - 2), One, 1, TRUE)
                 inner == ParseDifference(SubSeq(text, open + 1, Len(text) - 1), 1)
             IN  IF ~outer.ok \/ inner = Malformed THEN Malformed
                 ELSE {[sign |-> x.sign, mono |-> MonoMul(outer.mono, x.mono)] : x \in inner}

(***************************************************************************)
(* The rate-law generators applied to one reaction object                  *)
(***************************************************************************)
\* the coefficient maps of the reactions the calling code builds
\* water and hydrogen take part with coefficient 1
CoeffMaps ==
    {mets \in UNION {[D -> {c \in (-MaxCoeff)..MaxCoeff : c # 0}] : D \in SUBSET RateSpecies} :
        \A m \in DOMAIN mets : Elements(m) # "C" => Abs(mets[m]) = 1}

OneSided(mets) ==
    /\ DOMAIN mets # {}
    /\ \/ \A m \in DOMAIN mets : mets[m] < 0
       \/ \A m \in DOMAIN mets : mets[m] > 0

\* a reaction with species on one side only is an exchange; one without species is not
RateReactions ==
    {[Reaction0 EXCEPT !.mets = mets, !.reversible = rev, !.exchange = x] :
        <<mets, rev, x>> \in
            {t \in CoeffMaps \X BOOLEAN \X BOOLEAN :
                /\ OneSided(t[1]) => t[3]
                /\ DOMAIN t[1] = {} => ~t[3]}}

InitRate ==
    /\ metabolites = Blank.mets
    /\ reactions = Blank.rxns
    /\ genes = Blank.genes
    /\ initial_conditions = Blank.ics
    /\ rxnMets = Blank.rm
    /\ metReaction = Blank.mr
    /\ geneReaction = Blank.gr
    /\ rxnModel = Blank.rmod
    /\ S = Blank.S
    /\ rateDicts = Blank.rd
    /\ paramDicts = Blank.pd
    /\ fixed_concentrations = Blank.fc
    /\ contexts = <<>>
    /\ snaps = <<>>
    /\ last = [op |-> "init", err |-> "none", note |-> "", n |-> 0]
    /\ kinetics = Kinetics0
    /\ returned = NoReturn
    /\ massReaction \in RateReactions

ModelVars == <<metabolites, reactions, genes, initial_conditions, rxnMets, metReaction,
               geneReaction, rxnModel, S, rateDicts, paramDicts, fixed_concentrations,
               contexts, snaps, last, kinetics>>

\* generate_rate_law(reaction, rate_type, sympy_expr, update_reaction): the textual
\* form is what sympy_expr=False returns and the symbolic form what sympy_expr=True does
GenerateRateLaw ==
    \E rate_type \in 1..3, update_reaction \in BOOLEAN :
        LET law == generate_rate_law(massReaction, rate_type)
        IN  /\ returned' = [none |-> law.none, op |-> "generate_rate_law",
                            rate_type |-> rate_type,
                            rxn |-> _ignore_h_and_h2o(massReaction),
                            text |-> law.text, expr |-> law.expr]
            /\ massReaction' = IF update_reaction /\ ~law.none
                               THEN [massReaction EXCEPT !._rate_law = law.text,
                                                         !._rate_expr = law.expr,
                                                         !._rtype = rate_type]
                               ELSE massReaction
            /\ UNCHANGED ModelVars

\* get_mass_action_ratio(reaction, sympy_expr=True)
GetMassActionRatio ==
    /\ returned' = [none |-> FALSE, op |-> "get_mass_action_ratio",
                    rxn |-> _ignore_h_and_h2o(massReaction),
                    expr |-> get_mass_action_ratio(massReaction)]
    /\ UNCHANGED ModelVars
    /\ UNCHANGED massReaction

\* get_disequilibrium_ratio(reaction, sympy_expr=True)
GetDisequilibriumRatio ==
    /\ returned' = [none |-> FALSE, op |-> "get_disequilibrium_ratio",
                    rxn |-> _ignore_h_and_h2o(massReaction),
                    expr |-> get_disequilibrium_ratio(massReaction)]
    /\ UNCHANGED ModelVars
    /\ UNCHANGED massReaction

NextRate ==
    \/ GenerateRateLaw
    \/ GetMassActionRatio
    \/ GetDisequilibriumRatio

SpecRate == InitRate /\ [][NextRate]_vars

(***************************************************************************)
(* The reference templates of the three rate types                         *)
(***************************************************************************)
\* the product over one side of concentration ** |coefficient|
Conc(reaction, sign) ==
    LET side == {m \in DOMAIN reaction.mets : reaction.mets[m] * sign > 0}
    IN  [f \in {Func(SpeciesId(m)) : m \in side} |->
            Abs(reaction.mets[CHOOSE m \in side : Func(SpeciesId(m)) = f])]

Template(reaction, rate_type) ==
    LET R   == Conc(reaction, -1)
        P   == Conc(reaction, 1)
        kf  == Const("kf", reaction) :> 1
        kr  == Const("kr", reaction) :> 1
        Keq == Const("Keq", reaction) :> 1
    IN  CASE rate_type = 1 /\ reaction.reversible ->
                 {Plus(MonoMul(kf, R)), Minus(MonoMul(kf, MonoMul(P, Inverse(Keq))))}
          [] rate_type = 2 /\ reaction.reversible ->
                 {Plus(MonoMul(kf, R)), Minus(MonoMul(kr, P))}
          [] rate_type = 3 /\ reaction.reversible ->
                 {Plus(MonoMul(kr, MonoMul(Keq, R))), Minus(MonoMul(kr, P))}
          [] rate_type \in {1, 2} /\ ~reaction.reversible -> {Plus(MonoMul(kf, R))}
          [] OTHER -> {Plus(MonoMul(kr, MonoMul(Keq, R)))}

BothSidesExplicit(reaction) ==
    Len(reactants(reaction)) > 0 /\ Len(products(reaction)) > 0

RateLawReturned == returned # NoReturn /\ returned.op = "generate_rate_law" /\ ~returned.none

\* C16: for a reaction with explicit species on both sides and each rate type, the
\* symbolic rate law equals the reference template: kf*(R - P/Keq), kf*R - kr*P,
\* kr*(Keq*R - P) when reversible; kf*R, kf*R, kr*Keq*R when irreversible
C16_SymbolicMatchesTemplate ==
    (RateLawReturned /\ BothSidesExplicit(returned.rxn))
        => returned.expr = Template(returned.rxn, returned.rate_type)

C16_Witness ==
    /\ RateLawReturned
    /\ BothSidesExplicit(returned.rxn)
    /\ returned.rxn.reversible
    /\ returned.rate_type = 3
    /\ \E m \in DOMAIN returned.rxn.mets : returned.rxn.mets[m] = -2
    /\ returned.expr = Template(returned.rxn, 3)

\* one term with Keq replaced by kf/kr
SubsKeqTerm(term, reaction) ==
    LET Keq == Const("Keq", reaction)
        e   == IF Keq \in DOMAIN term.mono THEN term.mono[Keq] ELSE 0
    IN  IF e = 0 THEN term
        ELSE [term EXCEPT !.mono = MulPow(MulPow(Without(@, {Keq}),
                                                 Const("kf", reaction), e),
                                          Const("kr", reaction), -e)]

\* expr.subs(Keq, kf/kr)
SubsKeq(expr, reaction) == {SubsKeqTerm(term, reaction) : term \in expr}

\* kf * expr
TimesKf(expr, reaction) ==
    {[term EXCEPT !.mono = MulPow(@, Const("kf", reaction), 1)] : term \in expr}

\* C27 as stated: for a reversible reaction the type 2 rate expression equals kf
\* times the type 1 rate expression in which Keq is replaced by kf/kr
C27_Type2IsKfTimesType1 ==
    (RateLawReturned /\ returned.rxn.reversible) =>
        _generate_rate_expr_type_2(returned.rxn)
            = TimesKf(SubsKeq(_generate_rate_expr_type_1(returned.rxn), returned.rxn),
                      returned.rxn)

\* C27, amended: for a reversible reaction the type 2 rate expression equals the
\* type 1 rate expression, kf*(R - P/Keq), in which Keq is replaced by kf/kr; no
\* further factor kf enters
C27_Type2IsType1 ==
    (RateLawReturned /\ returned.rxn.reversible) =>
        _generate_rate_expr_type_2(returned.rxn)
            = SubsKeq(_generate_rate_expr_type_1(returned.rxn), returned.rxn)

\* a type 2 law has been generated for a reversible reaction with a coefficient of
\* two, and it is the type 1 law with Keq replaced
C27_Witness ==
    /\ RateLawReturned
    /\ returned.rxn.reversible
    /\ returned.rate_type = 2
    /\ \E m \in DOMAIN returned.rxn.mets : returned.rxn.mets[m] = 2
    /\ returned.expr = SubsKeq(_generate_rate_expr_type_1(returned.rxn), returned.rxn)
    /\ Cardinality(returned.expr) = 2

\* the part of a textual rate law after its minus sign, less the closing parenthesis
ReverseText(text) ==
    LET cut  == FirstAt(text, Op(" - "))
        rest == SubSeq(text, cut + 1, Len(text))
    IN  IF Len(rest) > 0 /\ rest[Len(rest)] = Op(")")
        THEN SubSeq(rest, 1, Len(rest) - 1) ELSE rest

\* the concentrations of a monomial, its constants left out
SpeciesPart(mono) == Restrict(mono, {f \in DOMAIN mono : f.k \in {"func", "sym"}})

ExchangeWithoutProducts(reaction) ==
    reaction.exchange /\ reaction.reversible /\ Len(products(reaction)) = 0

\* C17: for a reversible exchange reaction with an empty product set and each rate
\* type, the product term of the rate law is exactly the external-concentration
\* symbol, in the text (a well-formed product, no operator without operand) and in
\* the symbolic form
C17_ExternalProductTerm ==
    (RateLawReturned /\ ExchangeWithoutProducts(returned.rxn)) =>
        LET ext  == ExternalId(returned.rxn)
            term == ParseTerm(ReverseText(returned.text), One, 1, TRUE)
        IN  /\ term.ok
            /\ SpeciesPart(term.mono) = (Func(ext) :> 1)
            /\ \E x \in returned.expr : x.sign = -1 /\ SpeciesPart(x.mono) = (Sym(ext) :> 1)

\* an expression with its external-concentration symbols read as functions of time
Timed(expr) ==
    LET timed(f) == IF f.k = "sym" THEN Func(f.id) ELSE f
    IN  {[sign |-> x.sign,
          mono |-> [f \in {timed(g) : g \in DOMAIN x.mono} |->
                       x.mono[CHOOSE g \in DOMAIN x.mono : timed(g) = f]]] : x \in expr}

\* C18: for each reaction variant and rate type, the textual rate law and the
\* symbolic rate law of generate_rate_law denote the same expression: the same
\* constants, species, exponents, external-concentration term and structure
C18_TextDenotesSymbolic ==
    RateLawReturned => Denote(returned.text) = Timed(returned.expr)

\* the species the exclusion filter names: water and free hydrogen
Excluded(m) == Elements(m) \in {"H2O", "H"}

\* the reaction is the exchange reaction of species m
ExchangeFor(reaction, m) == reaction.exchange /\ DOMAIN reaction.mets = {m}

\* no factor of the species in the returned expression
NoFactorOf(m) ==
    \A x \in returned.expr : Func(SpeciesId(m)) \notin DOMAIN x.mono

\* C19: a species whose elemental formula is H2O or H contributes no factor to the
\* rate law, the mass-action ratio or the disequilibrium ratio of a reaction unless
\* the reaction is the exchange reaction of that species (an excluded species in the
\* exchange reaction of another species is omitted), and generating never changes
\* the coefficient map of the reaction object
C19_ExcludedSpeciesOmitted ==
    [][/\ massReaction'.mets = massReaction.mets
       /\ \A m \in DOMAIN massReaction.mets :
              (Excluded(m) /\ ~ExchangeFor(massReaction, m)) => NoFactorOf(m)']_vars

(***************************************************************************)
(* calc_PERCS (massmodel.py).  Numbers are exact fractions.                *)
(***************************************************************************)
\* rxn._reversible of each reaction object: R1 is A <=> B, the others are irreversible
Reversible(r) == r = "R1"

\* the reaction object of the model as the rate-law generators read it
ReactionOf(st, r) ==
    [Reaction0 EXCEPT !.id = RxnId(r), !.mets = st.rm[r],
                      !.reversible = Reversible(r), !.exchange = Exchange(st, r)]

\* rxn.generate_rate_law(rate_type, sympy_expr=True, ...)
RateExpr(st, r, rate_type) == generate_rate_law(ReactionOf(st, r), rate_type).expr

\* expression.atoms(sp.Symbol) and expression.atoms(sp.Function)
Atoms(expr) == UNION {DOMAIN x.mono : x \in expr}

\* self.steady_state_fluxes
ModelFluxes(st) ==
    Restrict(st.kin.ssflux, {r \in Range(st.rxns) : st.kin.ssflux[r] # None})

\* qcqa.get_missing_parameters(model, Keq, ssflux, custom_parameters): the reactions
\* with an unset equilibrium constant, an unset flux or a custom rate one of whose
\* parameters has no value
get_missing_parameters(st, Keq, ssflux, custom_parameters) ==
    {r \in Range(st.rxns) :
        \/ Keq /\ st.kin.Keq[r] = None
        \/ ssflux /\ st.kin.ssflux[r] = None
        \/ /\ custom_parameters
           /\ r \in DOMAIN StRates(st)
           /\ \E sym \in StRates(st)[r] :
                  sym \in {"p1", "p2"} /\ sym \notin DOMAIN StParams(st)}

\* MassModel.generate_rate_laws(rate_type=..., sympy_expr=True, update_reactions=...)
generate_rate_laws(st, rate_type, update_reactions) ==
    IF Len(st.rxns) = 0 THEN [st EXCEPT !.ret = NoReturn]
    ELSE LET st1 == IF update_reactions THEN [st EXCEPT !.kin.rtype = rate_type] ELSE st
         IN  [st1 EXCEPT !.ret =
                 [none |-> FALSE,
                  rates |-> [rxn \in Range(st.rxns) |->
                                IF rxn \in DOMAIN StRates(st)
                                THEN CustomRate(rxn, StRates(st)[rxn])
                                ELSE [custom  |-> FALSE, rxn |-> rxn,
                                      symbols |-> RateExpr(st, rxn, rate_type)]]]]

\* str(sym) of a symbol of a rate law
SymStr(f) == IF f.k = "sym" THEN f.id ELSE f.k \o "_" \o f.id

\* re.search("kf|Keq|kr", sym_str) for the symbols the rate laws are built from
MatchesRate(f) == f.k \in {"kf", "kr", "Keq"}

\* the symbols and functions of each ODE
OdeAtoms(st, ode_dict) ==
    [m \in DOMAIN ode_dict |->
        UNION {Atoms(RateExpr(st, term.rate.rxn, st.kin.rtype)) : term \in ode_dict[m].terms}]

\* what _sort_symbols leaves when it raises
SortRaises(err) ==
    [err |-> err, funcs |-> {}, rate |-> {}, fixed |-> {}, custom |-> {},
     odes |-> EmptyFn, rates |-> NoReturn]

\* expressions._sort_symbols(model): the ODEs, the rate laws and the symbols of the
\* ODEs by class, or the exception raised on the way
_sort_symbols(st) ==
    LET ode_dict  == odes(st)
        rate_dict == generate_rate_laws(st, st.kin.rtype, FALSE).ret
        ode_atoms == OdeAtoms(st, ode_dict)
        atoms     == UNION {ode_atoms[m] : m \in DOMAIN ode_dict}
        functions == {f \in atoms : f.k = "func"}
        symbols   == atoms \ functions
    IN  IF \E m \in DOMAIN ode_dict : ode_dict[m].none
        THEN SortRaises("AttributeError")
        ELSE IF \E f \in functions : ~HasMetId(st.mets, f.id)
        THEN SortRaises("KeyError")
        \* model.rate_expressions is no attribute of MassModel
        ELSE IF \E f \in functions : MetById(st.mets, f.id) \in DOMAIN st.fc
        THEN SortRaises("AttributeError")
        ELSE [err    |-> "none",
              funcs  |-> functions,
              rate   |-> {f \in symbols : MatchesRate(f)},
              fixed  |-> {f \in symbols : SymStr(f) \in DOMAIN st.fc},
              custom |-> {f \in symbols : SymStr(f) \in DOMAIN StParams(st)},
              odes   |-> ode_atoms,
              rates  |-> rate_dict]

RECURSIVE Gcd(_, _)
Gcd(a, b) == IF b = 0 THEN a ELSE Gcd(b, a % b)

\* the float n / d
Frac(n, d) ==
    LET g == Gcd(Abs(n), Abs(d))
        s == IF d < 0 THEN -1 ELSE 1
    IN  [num |-> s * (n \div g), den |-> s * (d \div g)]

RECURSIVE Power(_, _)
Power(x, e) == IF e = 0 THEN 1 ELSE x * Power(x, e - 1)

RECURSIVE Product(_, _)
\* the product of value ** exponent over the concentrations of a monomial
Product(mono, values) ==
    IF DOMAIN mono = {} THEN 1
    ELSE LET f == CHOOSE g \in DOMAIN mono : TRUE
         IN  Power(values[f], mono[f]) * Product(Without(mono, {f}), values)

\* rate.subs(values) is perc * Numer / keq: the expression with the concentrations
\* substituted, the rate constant taken out and the fraction cleared
Numer(expr, values, keq) ==
    LET term(x) == x.sign * Product(SpeciesPart(x.mono), values)
                          * (IF \E f \in DOMAIN x.mono : f.k = "Keq" THEN 1 ELSE keq)
        RECURSIVE Sum(_)
        Sum(xs) == IF xs = {} THEN 0
                   ELSE LET x == CHOOSE y \in xs : TRUE IN term(x) + Sum(xs \ {x})
    IN  Sum(expr)

\* set(sp.solveset(sp.Eq(flux, rate.subs(values)), perc, domain=sp.S.Reals))
Solve(flux, expr, values, keq) ==
    LET numer == Numer(expr, values, keq)
    IN  IF numer = 0 THEN {} ELSE {Frac(flux * keq, numer)}

\* the values substituted for the symbols of one rate, or the KeyError of
\* self.metabolites.get_by_id / self.initial_conditions[metab]
Values(st, symbols, atoms) ==
    LET unknown(f) ==
            CASE f.k \in {"kf", "kr", "Keq"} -> f \notin symbols.rate
              [] f.k = "sym"                 -> f \notin symbols.fixed
              [] OTHER -> \/ ~HasMetId(st.mets, f.id)
                          \/ MetById(st.mets, f.id) \notin DOMAIN st.ics
    IN  IF \E f \in atoms : unknown(f) THEN [err |-> "KeyError", values |-> EmptyFn]
        ELSE [err    |-> "none",
              values |-> [f \in {g \in atoms : g.k \in {"func", "sym"}} |->
                             IF f.k = "sym" THEN st.fc[f.id]
                             ELSE st.ics[MetById(st.mets, f.id)]]]

RECURSIVE PercLoop(_, _, _, _, _, _, _)
\* for rxn, rate in iteritems(rates): ...
PercLoop(st, rs, symbols, fluxes, at_equilibrium_default, update_reactions, percs_dict) ==
    IF Len(rs) = 0 THEN [st EXCEPT !.ret = [none |-> FALSE, percs |-> percs_dict]]
    \* the symbols of a custom rate are in no ODE and so in no class
    ELSE IF Head(rs) \in DOMAIN StRates(st) THEN Raise(st, "KeyError")
    ELSE LET rxn  == Head(rs)
             rate == RateExpr(st, rxn, st.kin.rtype)
             v    == Values(st, symbols, Atoms(rate))
             flux == fluxes[rxn]
             sol  == IF flux = 0 THEN {Frac(at_equilibrium_default, 1)}
                     ELSE Solve(flux, rate, v.values, st.kin.Keq[rxn])
         IN  IF v.err # "none" THEN Raise(st, v.err)
             \* sol.pop() on an empty set
             ELSE IF sol = {} THEN Raise(st, "KeyError")
             ELSE LET perc == CHOOSE x \in sol : TRUE
                      st1  == IF update_reactions
                              THEN [st EXCEPT !.kin.kf[rxn] = perc] ELSE st
                  IN  PercLoop(st1, Tail(rs), symbols, fluxes, at_equilibrium_default,
                               update_reactions, Update(percs_dict, RxnId(rxn) :> perc))

\* a dictionary argument that may be None
NoDict == [none |-> TRUE, d |-> EmptyFn]

Dict(d) == [none |-> FALSE, d |-> d]

\* calc_PERCS selecting rate type 1 before it looks for missing values
calc_PERCS_rtype_first(st, steady_state_concentrations, steady_state_fluxes, at_equilibrium_default, update_reactions) ==
    LET concs  == IF steady_state_concentrations.none THEN st.ics
                  ELSE steady_state_concentrations.d
        fluxes == IF steady_state_fluxes.none THEN ModelFluxes(st)
                  ELSE steady_state_fluxes.d
        missing_params ==
            IF steady_state_fluxes.none THEN get_missing_parameters(st, TRUE, TRUE, TRUE)
            ELSE get_missing_parameters(st, TRUE, FALSE, TRUE)
                     \cup {rxn \in Range(st.rxns) : rxn \notin DOMAIN fluxes}
        missing_concs == {m \in Range(st.mets) : m \notin DOMAIN concs}
        st1     == [st EXCEPT !.kin.rtype = 1]
        symbols == _sort_symbols(st1)
    IN  IF missing_params # {} \/ missing_concs # {} THEN [st1 EXCEPT !.ret = NoReturn]
        ELSE IF Len(st.rxns) = 0 THEN Raise(st1, "AttributeError")
        ELSE IF symbols.err # "none" THEN Raise(st1, symbols.err)
        ELSE PercLoop(st1, st1.rxns, symbols, fluxes, at_equilibrium_default,
                      update_reactions, EmptyFn)

\* MassModel.calc_PERCS(steady_state_concentrations, steady_state_fluxes,
\*                      at_equilibrium_default, update_reactions)
calc_PERCS(st, steady_state_concentrations, steady_state_fluxes, at_equilibrium_default, update_reactions) ==
    LET concs  == IF steady_state_concentrations.none THEN st.ics
                  ELSE steady_state_concentrations.d
        fluxes == IF steady_state_fluxes.none THEN ModelFluxes(st)
                  ELSE steady_state_fluxes.d
        missing_params ==
            IF steady_state_fluxes.none THEN get_missing_parameters(st, TRUE, TRUE, TRUE)
            ELSE get_missing_parameters(st, TRUE, FALSE, TRUE)
                     \cup {rxn \in Range(st.rxns) : rxn \notin DOMAIN fluxes}
        missing_concs == {m \in Range(st.mets) : m \notin DOMAIN concs}
        st1     == [st EXCEPT !.kin.rtype = 1]
        symbols == _sort_symbols(st1)
    IN  IF missing_params # {} \/ missing_concs # {} THEN [st EXCEPT !.ret = NoReturn]
        \* generate_rate_laws returns None for a model without reactions
        ELSE IF Len(st.rxns) = 0 THEN Raise(st1, "AttributeError")
        ELSE IF symbols.err # "none" THEN Raise(st1, symbols.err)
        ELSE PercLoop(st1, st1.rxns, symbols, fluxes, at_equilibrium_default,
                      update_reactions, EmptyFn)

(***************************************************************************)
(* calc_PERCS on a model that holds R1 (A <=> B) and R2 (2 A ->)           *)
(***************************************************************************)
\* the largest concentration, equilibrium constant and flux the calling code sets
MaxConc == 2

\* at_equilibrium_default: the default of the signature and another sentinel
PercDefaults == {100000, 7}

\* the initial conditions the calling code records with update_initial_conditions
IcChoices ==
    [{"A1", "B1"} -> 1..MaxConc] \cup [{"A1"} -> 1..MaxConc]

\* rxn.Keq and rxn.ssflux as the calling code sets them; R2 is irreversible and
\* at rest
KineticsChoices ==
    {[Kinetics0 EXCEPT !.Keq["R1"] = keq, !.ssflux["R1"] = f1, !.ssflux["R2"] = 0] :
        <<keq, f1>> \in ({None} \cup 1..MaxConc) \X {None, 0, 1}}

\* no custom rate, or the rate kf_R1*p1 for R1 without and with a value for p1
CustomChoices ==
    {<<EmptyFn, EmptyFn>>,
     <<"R1" :> create_custom_rate("R1", "kf_R1*p1", EmptyFn), EmptyFn>>,
     <<"R1" :> create_custom_rate("R1", "kf_R1*p1", EmptyFn), "p1" :> 1>>}

\* MassModel(); model.add_reactions([R1, R2]); then the calling code sets the initial
\* conditions, the reactions' attributes and possibly a custom rate
InitPerc ==
    /\ contexts = <<>>
    /\ snaps = <<>>
    /\ \E st \in {add_reactions(Blank, <<"R1", "R2">>, FALSE, FALSE)} :
           /\ metabolites = st.mets
           /\ reactions = st.rxns
           /\ genes = st.genes
           /\ rxnMets = st.rm
           /\ metReaction = st.mr
           /\ geneReaction = st.gr
           /\ rxnModel = st.rmod
           /\ S = st.S
           /\ fixed_concentrations = st.fc
    /\ initial_conditions \in IcChoices
    /\ \E custom \in CustomChoices :
           rateDicts = <<custom[1]>> /\ paramDicts = <<custom[2]>>
    /\ last = [op |-> "add_reactions", err |-> "none", note |-> "", n |-> 1]
    /\ kinetics \in KineticsChoices
    /\ returned = NoReturn
    /\ massReaction = Reaction0

\* the state a call outside every scope leaves behind
CommitPerc(st, op) ==
    /\ metabolites' = st.mets
    /\ reactions' = st.rxns
    /\ genes' = st.genes
    /\ initial_conditions' = st.ics
    /\ rxnMets' = st.rm
    /\ metReaction' = st.mr
    /\ geneReaction' = st.gr
    /\ rxnModel' = st.rmod
    /\ S' = st.S
    /\ rateDicts' = st.rd
    /\ paramDicts' = st.pd
    /\ fixed_concentrations' = st.fc
    /\ kinetics' = st.kin
    /\ returned' = st.ret
    /\ last' = [last EXCEPT !.op = op, !.err = st.err]
    /\ UNCHANGED <<contexts, snaps, massReaction>>

\* the concentration and flux dictionaries the calling code passes
ConcInputs ==
    {NoDict, Dict("A1" :> 1), Dict(("A1" :> 1) @@ ("B1" :> MaxConc)),
     Dict(("A1" :> MaxConc) @@ ("B1" :> MaxConc))}

FluxInputs ==
    {NoDict, Dict(("R1" :> 0) @@ ("R2" :> 1)), Dict("R1" :> 1)}

CalcPERCS ==
    \E steady_state_concentrations \in ConcInputs, steady_state_fluxes \in FluxInputs,
       at_equilibrium_default \in PercDefaults, update_reactions \in BOOLEAN :
        CommitPerc(calc_PERCS(Cur, steady_state_concentrations, steady_state_fluxes,
                              at_equilibrium_default, update_reactions), "calc_PERCS")

GenerateRateLaws ==
    \E rate_type \in 1..3, update_reactions \in BOOLEAN :
        CommitPerc(generate_rate_laws(Cur, rate_type, update_reactions),
                   "generate_rate_laws")

NextPerc ==
    \/ CalcPERCS
    \/ GenerateRateLaws

SpecPerc == InitPerc /\ [][NextPerc]_vars

(***************************************************************************)
(* What a call of calc_PERCS is given                                      *)
(***************************************************************************)
\* the flux of a reaction: the one passed, else the one stored in the reaction
FluxOf(ssf, rxn) ==
    IF ssf.none THEN kinetics.ssflux[rxn]
    ELSE IF rxn \in DOMAIN ssf.d THEN ssf.d[rxn] ELSE None

\* the concentrations: the ones passed, else the initial conditions of the model
ConcsOf(ssc) == IF ssc.none THEN initial_conditions ELSE ssc.d

\* every reaction has its equilibrium constant, its flux and a value for every
\* parameter of its custom rate, and every metabolite has a concentration
DataPresent(ssc, ssf) ==
    /\ \A rxn \in Range(reactions) :
           /\ kinetics.Keq[rxn] # None
           /\ FluxOf(ssf, rxn) # None
           /\ rxn \in DOMAIN CurRates =>
                  \A sym \in CurRates[rxn] \cap {"p1", "p2"} : sym \in DOMAIN CurParams
    /\ \A m \in Range(metabolites) : m \in DOMAIN ConcsOf(ssc)

\* the concentrations of a rate's metabolites taken from a concentration assignment
ValuesFrom(concs, rate) ==
    [f \in {g \in Atoms(rate) : g.k = "func"} |-> concs[MetById(metabolites, f.id)]]

\* the real roots of rate(unknown) = flux for one reaction
RootsOf(ssc, ssf, rxn) ==
    LET rate == RateExpr(Cur, rxn, 1)
    IN  Solve(FluxOf(ssf, rxn), rate, ValuesFrom(ConcsOf(ssc), rate), kinetics.Keq[rxn])

\* every equation with a non-zero flux has exactly one root for these concentrations
UniqueRoots(ssc, ssf) ==
    \A rxn \in Range(reactions) :
        FluxOf(ssf, rxn) # 0 => Cardinality(RootsOf(ssc, ssf, rxn)) = 1

\* C12: when calc_PERCS runs with all required data present, every reaction whose
\* flux is exactly 0 gets the equilibrium sentinel (at_equilibrium_default) as its
\* rate constant, whatever concentrations, equilibrium constants and custom
\* parameters are supplied (the equations of the other reactions being solvable)
C12_ZeroFluxSentinel ==
    \A ssc \in ConcInputs, ssf \in FluxInputs, default \in PercDefaults, update \in BOOLEAN :
        (DataPresent(ssc, ssf) /\ UniqueRoots(ssc, ssf)) =>
            LET out == calc_PERCS(Cur, ssc, ssf, default, update)
            IN  \A rxn \in Range(reactions) :
                    FluxOf(ssf, rxn) = 0 =>
                        /\ out.err = "none"
                        /\ ~out.ret.none
                        /\ out.ret.percs[RxnId(rxn)] = Frac(default, 1)
                        /\ update => out.kin.kf[rxn] = Frac(default, 1)

\* C13: if a reaction lacks its equilibrium constant, its flux or a custom parameter
\* it uses, or a metabolite lacks a concentration, calc_PERCS raises nothing, returns
\* no result and leaves the model as it was: no rate constant, not the rate-type
\* selector and no map of the model is modified
C13_MissingDataLeavesModel ==
    \A ssc \in ConcInputs, ssf \in FluxInputs, default \in PercDefaults, update \in BOOLEAN :
        ~DataPresent(ssc, ssf) =>
            LET out == calc_PERCS(Cur, ssc, ssf, default, update)
            IN  /\ out.err = "none"
                /\ out.ret = NoReturn
                /\ out.kin = kinetics
                /\ StView(out) = View
                /\ out = Cur

C13_Witness ==
    /\ last.op = "calc_PERCS"
    /\ last.err = "none"
    /\ returned = NoReturn
    /\ kinetics.rtype = 3
    /\ kinetics.Keq["R1"] = None
    /\ \E ssc \in ConcInputs, ssf \in FluxInputs : ~DataPresent(ssc, ssf)

\* C14: for a reaction with non-zero flux whose equation rate(unknown) = flux has no
\* real root or more than one, calc_PERCS fails with the unsolvable-equation error
\* and records no rate constant for it
C14_UnsolvableReported ==
    \A ssc \in ConcInputs, ssf \in FluxInputs, default \in PercDefaults, update \in BOOLEAN :
        DataPresent(ssc, ssf) =>
            LET out == calc_PERCS(Cur, ssc, ssf, default, update)
            IN  \A rxn \in Range(reactions) :
                    (FluxOf(ssf, rxn) # 0 /\ Cardinality(RootsOf(ssc, ssf, rxn)) # 1) =>
                        /\ out.err = "UnsolvableEquation"
                        /\ out.kin.kf[rxn] = kinetics.kf[rxn]

\* C15: when a concentration assignment is passed to calc_PERCS, the value
\* substituted for each free metabolite in every rate expression is the passed
\* concentration, so every rate constant solves its equation for the passed
\* concentrations; the stored initial conditions serve only when none is passed
\* (stated for models without custom rates)
C15_SuppliedConcentrationsUsed ==
    \A ssc \in ConcInputs, ssf \in FluxInputs, default \in PercDefaults, update \in BOOLEAN :
        (DataPresent(ssc, ssf) /\ UniqueRoots(ssc, ssf) /\ DOMAIN CurRates = {}) =>
            LET out == calc_PERCS(Cur, ssc, ssf, default, update)
            IN  /\ out.err = "none"
                /\ ~out.ret.none
                /\ \A rxn \in Range(reactions) :
                       FluxOf(ssf, rxn) # 0 =>
                           out.ret.percs[RxnId(rxn)] \in RootsOf(ssc, ssf, rxn)

(***************************************************************************)
(* The assembled ODEs                                                      *)
(***************************************************************************)
\* the reactions of the model that contain the metabolite
Containing(m) == {r \in Range(reactions) : m \in DOMAIN rxnMets[r]}

\* the signed sum of the rate laws of the reactions that contain the metabolite
SignedSum(m) ==
    IF Containing(m) = {} THEN NoOde
    ELSE [none  |-> FALSE,
          terms |-> {[sign |-> IF rxnMets[r][m] < 0 THEN -1 ELSE 1,
                      rate |-> rates(Cur)[r]] : r \in Containing(m)}]

\* C20: for every metabolite without a fixed concentration the assembled ODE is the
\* sum, over the reactions that contain it, of sign times the reaction's rate law
\* (-1 for a reactant, +1 for a product); a metabolite in no reaction yields the
\* explicit none result
C20_OdeIsSignedSum ==
    \A m \in Range(metabolites) :
        (m \notin DOMAIN fixed_concentrations /\ MetId(m) \notin DOMAIN fixed_concentrations)
            => generate_ode(Cur, m) = SignedSum(m)

(***************************************************************************)
(* The symbol classifier on a model that holds R1 and R2, after the calling *)
(* code fixed concentrations, registered custom rates or removed reactions  *)
(***************************************************************************)
\* the custom_parameters dictionaries passed here: a parameter of its own name and
\* one named like the forward rate constant of R1
SortParamInputs == {"p1" :> 1, "kf_R1" :> 1}

AddNamedCustomRate ==
    \E reaction \in CustomRxns, custom_rate \in RateForms,
       custom_parameters \in SortParamInputs :
        Commit(add_custom_rate(Cur, reaction, custom_rate, custom_parameters),
               "add_custom_rate", "")

\* model.remove_reactions([rxn])
RemoveOneReaction ==
    \E rxn \in CustomRxns :
        Commit(remove_reactions(Cur, <<rxn>>, FALSE, FALSE, FALSE), "remove_reactions", "")

\* expressions._sort_symbols(model)
SortSymbols ==
    LET sorted == _sort_symbols(Cur)
    IN  CommitPerc([Cur EXCEPT !.ret = [sorted EXCEPT !.err = "none"], !.err = sorted.err],
                   "_sort_symbols")

NextSort ==
    \/ AddNamedCustomRate
    \/ RemoveOneReaction
    \/ AddFixedConcentrations
    \/ RemoveFixedConcentrations
    \/ SortSymbols

SpecSort == InitCustom /\ [][NextSort]_vars

\* the classifier has run to its end in the last call
Sorted == last.op = "_sort_symbols" /\ last.err = "none"

\* every symbol of the ODEs the classifier returned
SortedSymbols == {f \in UNION {returned.odes[m] : m \in DOMAIN returned.odes} : f.k # "func"}

\* C21: when the classifier completes, every symbol of the ODEs is in exactly one of
\* the classes rate constant, fixed concentration and custom parameter, every
\* concentration function is in the class metabolite concentration, and the four
\* classes are pairwise disjoint
C21_ClassesPartitionSymbols ==
    Sorted =>
        /\ SortedSymbols = returned.rate \cup returned.fixed \cup returned.custom
        /\ returned.rate \cap returned.fixed = {}
        /\ returned.rate \cap returned.custom = {}
        /\ returned.fixed \cap returned.custom = {}
        /\ returned.funcs \cap SortedSymbols = {}
        /\ returned.funcs =
               {f \in UNION {returned.odes[m] : m \in DOMAIN returned.odes} : f.k = "func"}

\* the concentration functions of the registered metabolites that are keys of the
\* fixed-concentration map
FixedFuncs ==
    {Func(MetId(m)) : m \in {x \in Range(metabolites) : x \in DOMAIN fixed_concentrations}}

\* the symbols and functions of the rate laws the classifier returned
ReturnedRateAtoms ==
    IF returned.rates.none THEN {}
    ELSE UNION {Atoms(returned.rates.rates[r].symbols) :
                   r \in {x \in DOMAIN returned.rates.rates : ~returned.rates.rates[x].custom}}

\* C22: when the classifier completes, no returned ODE and no returned rate
\* expression holds the time-dependent concentration of a metabolite with a fixed
\* concentration, no such concentration is classified as free, and the constant
\* symbol of every fixed metabolite of a rate law is classified as fixed
C22_FixedConcentrationsSubstituted ==
    Sorted =>
        /\ \A m \in DOMAIN returned.odes : returned.odes[m] \cap FixedFuncs = {}
        /\ ReturnedRateAtoms \cap FixedFuncs = {}
        /\ returned.funcs \cap FixedFuncs = {}
        /\ \A f \in FixedFuncs :
               f \in Atoms(UNION {RateExpr(Cur, r, kinetics.rtype) : r \in Range(reactions)})
                   => Sym(f.id) \in returned.fixed

(***************************************************************************)
(* The stoichiometric matrix in its representations, on a model that holds *)
(* R1 and R2                                                               *)
(***************************************************************************)
\* the matrix_type arguments of the calling code: the default, the five
\* representations in some spellings, an unknown name and an object that is no string
MatrixTypeInputs ==
    {NoArg, NotAString, StrArg("dense"), StrArg("DOK"), StrArg("lil"),
     StrArg("DataFrame"), StrArg("symbolic"), StrArg("csr")}

DtypeInputs == {NoDtype, "int64"}

\* the reaction_list arguments: None and a list of one reaction
ListInputs == {<<>>, <<"R1">>}

\* model.update_S(reaction_list, matrix_type, dtype, update_model)
UpdateSOfType ==
    \E lst \in ListInputs, matrix_type \in MatrixTypeInputs, dtype \in DtypeInputs,
       update_model \in BOOLEAN :
        LET r   == s_matrix(Cur, lst # <<>>, lst, matrix_type, dtype)
            out == update_S(Cur, lst # <<>>, lst, matrix_type, dtype, update_model)
        IN  Commit([out EXCEPT !.ret = IF r.err = "none" THEN r.s ELSE NoReturn],
                   "update_S", "")

NextMatrix ==
    \/ UpdateSOfType
    \/ RemoveOneReaction

SpecMatrix == InitCustom /\ [][NextMatrix]_vars

\* C23: update_S with a matrix type that is given and is no string raises TypeError,
\* and with a string that is, in lower case, none of dense, dok, lil, dataframe,
\* symbolic raises ValueError; either way the cached matrix, the stored matrix type
\* and the stored numeric type are what they were before the call
C23_BadMatrixTypeRejected ==
    \A lst \in ListInputs, matrix_type \in MatrixTypeInputs, dtype \in DtypeInputs,
       update_model \in BOOLEAN :
        LET out == update_S(Cur, lst # <<>>, lst, matrix_type, dtype, update_model)
            bad == \/ matrix_type.given /\ ~matrix_type.str
                   \/ matrix_type.str /\ Lower(matrix_type.text) \notin MatrixTypes
        IN  bad =>
                /\ out.err = IF matrix_type.str THEN "ValueError" ELSE "TypeError"
                /\ out.S = S
                /\ out.kin.matrix_type = kinetics.matrix_type
                /\ out.kin.dtype = kinetics.dtype

\* a call with a bad matrix type has raised on a model that caches a matrix in a
\* representation other than the default and with another numeric type
C23_Witness ==
    /\ last.op = "update_S"
    /\ last.err = "TypeError"
    /\ ~S.none
    /\ kinetics.matrix_type = "dok"
    /\ kinetics.dtype = "int64"

(***************************************************************************)
(* Reactions added and removed with update_stoichiometry=True inside one   *)
(* scope; the calling code keeps the matrix cached when the scope opened   *)
(***************************************************************************)
\* with model: (no scope inside another)
ScopeEnter ==
    /\ contexts = <<>>
    /\ contexts' = <<<<>>>>
    /\ snaps' = <<[view |-> View, ops |-> {}]>>
    /\ returned' = [none |-> FALSE, op |-> "enter", S |-> S]
    /\ last' = [op |-> "enter", err |-> "none", note |-> "", n |-> last.n]
    /\ UNCHANGED <<metabolites, reactions, genes, initial_conditions, rxnMets,
                   metReaction, geneReaction, rxnModel, S, rateDicts, paramDicts,
                   fixed_concentrations, kinetics, massReaction>>

\* model.add_reactions([rxn], update_stoichiometry=True)
ScopeAddReactions ==
    \E rxn \in RxnObjs :
        \E out \in {add_reactions(Cur, <<rxn>>, TRUE, FALSE)} :
            Commit([out EXCEPT !.ret = returned], "add_reactions_update", "")

\* model.remove_reactions([rxn], update_stoichiometry=True)
ScopeRemoveReactions ==
    \E rxn \in RxnObjs :
        \E out \in {remove_reactions(Cur, <<rxn>>, FALSE, TRUE, FALSE)} :
            Commit([out EXCEPT !.ret = returned], "remove_reactions_update", "")

\* model.update_S()
ScopeUpdateS ==
    \E out \in {update_S(Cur, FALSE, <<>>, NoArg, NoDtype, TRUE)} :
        Commit([out EXCEPT !.ret = returned], "update_S", "")

NextScope ==
    \/ ScopeEnter
    \/ Exit
    \/ ScopeAddReactions
    \/ ScopeRemoveReactions
    \/ ScopeUpdateS

SpecScope == InitCustom /\ [][NextScope]_vars

UpdatingOps == {"add_reactions_update", "remove_reactions_update"}

\* C28: leaving a scope in which add_reactions or remove_reactions ran with
\* update_stoichiometry=True completes without error, the reaction registry and the
\* cached matrix are then what they were when the scope was entered, and the entry
\* replayed first is not the matrix refresh
C28_UpdatingCallsUndone ==
    [][(/\ Len(contexts') < Len(contexts)
        /\ snaps[Len(snaps)].ops # {}
        /\ snaps[Len(snaps)].ops \subseteq UpdatingOps)
       => /\ last'.err = "none"
          /\ reactions' = snaps[Len(snaps)].view.rxns
          /\ S' = returned.S
          /\ LET context == contexts[Len(contexts)]
             IN  context # <<>> => context[Len(context)].k # "update_S"]_vars

(***************************************************************************)
(* util.convert_matrix: a sparse matrix stores its nonzero entries only, a   *)
(* DataFrame carries labels, a symbolic matrix has no numeric type           *)
(***************************************************************************)
\* _MATRIX_TYPES
_MATRIX_TYPES == {"dense", "dok", "lil", "DataFrame", "symbolic"}

\* the representation of a matrix in the spelling of _MATRIX_TYPES
KindOf(matrix) == IF matrix.kind = "dataframe" THEN "DataFrame" ELSE matrix.kind

\* the entry at a position, stored or not
At(matrix, p) == IF p \in DOMAIN matrix.val THEN matrix.val[p] ELSE 0

Positions(matrix) == (1..matrix.nr) \X (1..matrix.nc)

\* matrix.toarray(), as_matrix(), np.array(matrix): every position is filled
Filled(matrix) == [p \in Positions(matrix) |-> At(matrix, p)]

\* dok_matrix(matrix), lil_matrix(matrix): the nonzero entries are stored
Stored(matrix) ==
    Restrict(Filled(matrix), {p \in Positions(matrix) : At(matrix, p) # 0})

_to_dense(matrix) ==
    IF matrix.kind = "dense" THEN matrix
    ELSE IF matrix.kind = "dataframe"
    THEN [matrix EXCEPT !.kind = "dense", !.rows = <<>>, !.cols = <<>>]
    ELSE IF matrix.kind = "symbolic"
    THEN [matrix EXCEPT !.kind = "dense", !.dtype = "object"]
    ELSE [matrix EXCEPT !.kind = "dense", !.val = Filled(matrix)]

_to_lil(matrix) ==
    [matrix EXCEPT !.kind  = "lil",
                   !.dtype = IF matrix.kind = "symbolic" THEN "float64" ELSE @,
                   !.val   = Stored(matrix),
                   !.rows  = <<>>,
                   !.cols  = <<>>]

\* _to_dok that keeps only the entries above zero
_to_dok_positive(matrix) ==
    [matrix EXCEPT !.kind  = "dok",
                   !.dtype = IF matrix.kind = "symbolic" THEN "float64" ELSE @,
                   !.val   = Restrict(Filled(matrix),
                                      {p \in Positions(matrix) : At(matrix, p) > 0}),
                   !.rows  = <<>>,
                   !.cols  = <<>>]

_to_dok(matrix) ==
    [matrix EXCEPT !.kind  = "dok",
                   !.dtype = IF matrix.kind = "symbolic" THEN "float64" ELSE @,
                   !.val   = Stored(matrix),
                   !.rows  = <<>>,
                   !.cols  = <<>>]

\* row_ids=None, col_ids=None
NoIds == <<>>

\* the labels pandas gives when it is given none: 0, 1, ...
RangeIndex(n) == [i \in 1..n |-> ToString(i - 1)]

\* convert_matrix(matrix, matrix_type, dtype, row_ids, col_ids): [err, matrix]
convert_matrix(matrix, matrix_type, dtype, row_ids, col_ids) ==
    LET converted == CASE matrix_type = "dok" -> _to_dok(matrix)
                       [] matrix_type = "lil" -> _to_lil(matrix)
                       [] OTHER -> _to_dense(matrix)
        index     == IF row_ids = NoIds THEN RangeIndex(converted.nr) ELSE row_ids
        columns   == IF col_ids = NoIds THEN RangeIndex(converted.nc) ELSE col_ids
    IN  IF matrix_type \notin _MATRIX_TYPES
        THEN [err |-> "ValueError", matrix |-> NoneS]
        ELSE IF matrix_type = "symbolic"
        THEN [err |-> "none",
              matrix |-> [converted EXCEPT !.kind = "symbolic", !.dtype = "object"]]
        ELSE IF matrix_type = "DataFrame"
        \* pd.DataFrame(matrix, index=row_ids, columns=col_ids): the labels must
        \* fit the shape
        THEN IF Len(index) # converted.nr \/ Len(columns) # converted.nc
             THEN [err |-> "ValueError", matrix |-> NoneS]
             ELSE [err |-> "none",
                   matrix |-> [converted EXCEPT !.kind = "dataframe", !.dtype = dtype,
                                                !.rows = index, !.cols = columns]]
        ELSE [err |-> "none", matrix |-> [converted EXCEPT !.dtype = dtype]]

\* the matrix_type arguments of convert_matrix: the five names and an unknown one
ConvertTypeInputs == _MATRIX_TYPES \cup {"csr"}

ConvertDtypeInputs == {"int64", "float64"}

\* converted = convert_matrix(matrix, matrix_type, dtype, row_ids, col_ids) on the
\* matrix the calling code holds, with the identifiers of the model or without
ConvertMatrix ==
    /\ ~returned.none
    /\ \E matrix_type \in ConvertTypeInputs, dtype \in ConvertDtypeInputs,
          row_ids \in {NoIds, metabolite_ids(Cur)},
          col_ids \in {NoIds, reaction_ids(Cur)} :
           \E c \in {convert_matrix(returned, matrix_type, dtype, row_ids, col_ids)} :
               /\ returned' = IF c.err = "none" THEN c.matrix ELSE returned
               /\ last' = [last EXCEPT !.op = "convert_matrix", !.err = c.err]
    /\ UNCHANGED <<metabolites, reactions, genes, initial_conditions, rxnMets,
                   metReaction, geneReaction, rxnModel, S, rateDicts, paramDicts,
                   fixed_concentrations, contexts, snaps, kinetics, massReaction>>

NextConvert ==
    \/ UpdateSOfType
    \/ RemoveOneReaction
    \/ ConvertMatrix

SpecConvert == InitCustom /\ [][NextConvert]_vars

\* two matrices agree in dimensions, nonzero positions and values
SameEntries(a, b) ==
    /\ a.nr = b.nr
    /\ a.nc = b.nc
    /\ {p \in Positions(a) : At(a, p) # 0} = {p \in Positions(b) : At(b, p) # 0}
    /\ \A p \in Positions(a) : At(a, p) = At(b, p)

SameLabels(a, b) == a.rows = b.rows /\ a.cols = b.cols

\* matrix converted to matrix_type and back to its own representation: [err, matrix]
RoundTrip(matrix, matrix_type, dtype, row_ids, col_ids) ==
    LET there == convert_matrix(matrix, matrix_type, dtype, row_ids, col_ids)
    IN  IF there.err # "none" THEN there
        ELSE convert_matrix(there.matrix, KindOf(matrix), dtype, row_ids, col_ids)

\* the matrix self._S converted by _convert_S to matrix_type and back
RoundTripS(st, matrix_type) ==
    _convert_S([st EXCEPT !.S = _convert_S(st, matrix_type)], st.S.kind)

CopiedMets(st, rxn) ==
    [m \in {MetById(st.mets, MetId(x)) : x \in DOMAIN st.rm[rxn]} |->
        st.rm[rxn][CHOOSE x \in DOMAIN st.rm[rxn] : MetId(x) = MetId(m)]]

\* MassModel.copy(): [err, self, new_model, shared]; shared tells whether the new
\* model was given the custom-parameter dictionary of the original
copy(st) ==
    LET inModel   == Range(st.rxns)
        raises    == \E rxn \in inModel :
                        \/ \E x \in DOMAIN st.rm[rxn] : ~HasMetId(st.mets, MetId(x))
                        \/ \E g \in RxnGenes(rxn) : g \notin Range(st.genes)
        new_rates == Restrict(StRates(st), DOMAIN StRates(st) \cap inModel)
        new_rm    == [rxn \in RxnObjs |->
                         IF rxn \in inModel THEN CopiedMets(st, rxn) ELSE st.rm[rxn]]
        created   == _create_stoichiometric_matrix(st, st.kin.matrix_type, st.kin.dtype)
        \* self._create_stoichiometric_matrix(..., update_model=True) stores the
        \* matrix in the original unless the model is empty
        self      == IF created.s.none THEN st ELSE [st EXCEPT !.S = created.s]
        new_model ==
            [mets |-> st.mets, rxns |-> st.rxns, genes |-> st.genes,
             ics  |-> Restrict(st.ics, DOMAIN st.ics \cap Range(st.mets)),
             rm   |-> new_rm,
             mr   |-> [m \in MetObjs |->
                         IF m \in Range(st.mets)
                         THEN {rxn \in inModel : m \in DOMAIN new_rm[rxn]}
                         ELSE st.mr[m]],
             gr   |-> [g \in GeneIds |-> {rxn \in inModel : g \in RxnGenes(rxn)}],
             rmod |-> inModel,
             S    |-> created.s,
             rd   |-> <<new_rates>>,
             pd   |-> IF new_rates # EmptyFn THEN <<StParams(st)>> ELSE <<EmptyFn>>,
             fc   |-> st.fc,
             kin  |-> st.kin,
             ret  |-> NoReturn, log |-> <<>>, err |-> "none"]
    IN  IF raises
        THEN [err |-> "KeyError", self |-> st, new_model |-> Blank, shared |-> FALSE]
        ELSE IF created.err # "none"
        THEN [err |-> created.err, self |-> st, new_model |-> Blank, shared |-> FALSE]
        ELSE [err |-> "none", self |-> self, new_model |-> new_model,
              shared |-> new_rates # EmptyFn]

\* the models handed to merge as second_model: one reaction, without and with a
\* custom rate and its parameters
SecondModels ==
    {[id |-> "M2", rxns |-> <<"R1b">>, rd |-> EmptyFn, pd |-> EmptyFn],
     [id |-> "M2", rxns |-> <<"R2">>,
      rd |-> "R2" :> create_custom_rate("R2", "p1*p2", {"p1", "p2"}),
      pd |-> ("p1" :> 2) @@ ("p2" :> 1)]}

\* merge after new_model = self.copy() gave c and new_model.add_reactions(...,
\* add_initial_conditons=True) left the new model as m1
merge_into(st, second_model, c, m1) ==
    LET existing_cr == {RxnId(r) : r \in DOMAIN StRates(m1)}
        m2 == [m1 EXCEPT !.rd[Len(m1.rd)] =
                  Update(@, Restrict(second_model.rd,
                                     {r \in DOMAIN second_model.rd :
                                         RxnId(r) \notin existing_cr}))]
        m3 == [m2 EXCEPT !.pd[Len(m1.pd)] =
                  Update(@, Restrict(second_model.pd,
                                     DOMAIN second_model.pd \ DOMAIN StParams(m1)))]
        \* merged_model.modules is the set object of the first model
        modules == m1.kin.modules \cup {second_model.id, st.kin.id}
        merged  == [m3 EXCEPT !.kin.modules = modules]
        self    == [c.self EXCEPT !.kin.modules = modules,
                                  !.pd = IF c.shared THEN <<StParams(m3)>> ELSE @]
    IN  IF m1.err # "none"
        THEN [err |-> m1.err, self |-> c.self, new_model |-> Blank, shared |-> c.shared]
        ELSE [err |-> "none", self |-> self, new_model |-> merged, shared |-> c.shared]

\* MassModel.merge(second_model, inplace=False): [err, self, merged, shared]
merge(st, second_model) ==
    Only({IF c.err # "none" THEN c
          ELSE Only({merge_into(st, second_model, c, m1) :
                        m1 \in {add_reactions([c.new_model EXCEPT !.kin.id = "M1 & M2"],
                                              second_model.rxns, TRUE, FALSE)}}) :
          c \in {copy(st)}})

\* the first model takes the attributes of st
SetModel(st) ==
    /\ metabolites' = st.mets
    /\ reactions' = st.rxns
    /\ genes' = st.genes
    /\ initial_conditions' = st.ics
    /\ rxnMets' = st.rm
    /\ metReaction' = st.mr
    /\ geneReaction' = st.gr
    /\ rxnModel' = st.rmod
    /\ S' = st.S
    /\ rateDicts' = st.rd
    /\ paramDicts' = st.pd
    /\ fixed_concentrations' = st.fc
    /\ kinetics' = st.kin
    /\ UNCHANGED <<contexts, snaps, massReaction>>

\* how many calls the calling code makes on the two models after a copy
MaxCopyCalls == 2

\* the new model as the calling code holds it: calls is the number of calls made on
\* either model since
Held(op, new_model, shared, calls) ==
    [none |-> FALSE, op |-> op,
     model |-> [new_model EXCEPT !.err = "none", !.log = <<>>, !.ret = NoReturn],
     shared |-> shared, calls |-> calls]

\* new_model = model.copy()
Copy ==
    /\ returned = NoReturn
    /\ \E c \in {copy(Cur)} :
           /\ SetModel(c.self)
           /\ returned' = IF c.err = "none" THEN Held("copy", c.new_model, c.shared, 0)
                          ELSE NoReturn
           /\ last' = [last EXCEPT !.op = "copy", !.err = c.err]

\* merged = model.merge(second_model)
Merge ==
    /\ returned = NoReturn
    /\ \E second_model \in SecondModels :
           \E c \in {merge(Cur, second_model)} :
               /\ SetModel(c.self)
               /\ returned' = IF c.err = "none"
                              THEN Held("merge", c.new_model, c.shared, MaxCopyCalls)
                              ELSE NoReturn
               /\ last' = [last EXCEPT !.op = "merge", !.err = c.err]

\* a call on the new model has left it as out: the fixed-concentration dictionary
\* and the module set are the objects of the first model, and the custom-parameter
\* dictionary is when the copy took it over
OnCopy(out) ==
    /\ ~returned.none
    /\ returned.calls < MaxCopyCalls
    /\ returned' = Held(returned.op, out, returned.shared, returned.calls + 1)
    /\ SetModel([Cur EXCEPT !.fc = out.fc,
                            !.kin.modules = out.kin.modules,
                            !.pd = IF returned.shared THEN <<StParams(out)>> ELSE @])
    /\ last' = [last EXCEPT !.op = "on_copy", !.err = out.err]

\* a call on the first model, made after the copy, has left it as out
OnOriginal(out) ==
    /\ ~returned.none
    /\ returned.calls < MaxCopyCalls
    /\ returned' = Held(returned.op,
                        [returned.model EXCEPT
                            !.fc = out.fc,
                            !.kin.modules = out.kin.modules,
                            !.pd = IF returned.shared THEN <<StParams(out)>> ELSE @],
                        returned.shared, returned.calls + 1)
    /\ SetModel(out)
    /\ last' = [last EXCEPT !.op = "on_original", !.err = out.err]

\* the keys used after a copy: an identifier and an external species
CopyFcKeys == {"A", "A_Xt"}

CopyAddFixedConcentrations ==
    /\ ~returned.none
    /\ \E key \in CopyFcKeys, v \in {1, 2} :
           \E out \in {add_fixed_concentrations(returned.model, key :> v)} : OnCopy(out)

CopyRemoveFixedConcentrations ==
    /\ ~returned.none
    /\ \E key \in CopyFcKeys :
           \E out \in {remove_fixed_concentrations(returned.model, <<key>>)} : OnCopy(out)

\* the custom_parameters dictionaries passed after a copy
CopyParamInputs == {"p1" :> 1, ("p1" :> 2) @@ ("p2" :> 1)}

CopyAddCustomRate ==
    /\ ~returned.none
    /\ \E reaction \in CustomRxns, custom_parameters \in CopyParamInputs :
           \E out \in {add_custom_rate(returned.model, reaction, "kf_R1*p1",
                                       custom_parameters)} : OnCopy(out)

CopyRemoveReactions ==
    /\ ~returned.none
    /\ \E rxn \in CustomRxns, upd \in BOOLEAN :
           \E out \in {remove_reactions(returned.model, <<rxn>>, FALSE, upd, FALSE)} :
               OnCopy(out)

CopyAddMetabolites ==
    /\ ~returned.none
    /\ \E m \in MetObjs, add_ic \in BOOLEAN :
           \E out \in {add_metabolites(returned.model, <<m>>, add_ic)} : OnCopy(out)

OriginalAddFixedConcentrations ==
    /\ ~returned.none
    /\ \E key \in CopyFcKeys, v \in {1, 2} :
           \E out \in {add_fixed_concentrations(Cur, key :> v)} : OnOriginal(out)

OriginalAddCustomRate ==
    /\ ~returned.none
    /\ \E reaction \in CustomRxns, custom_parameters \in CopyParamInputs :
           \E out \in {add_custom_rate(Cur, reaction, "kf_R1*p1", custom_parameters)} :
               OnOriginal(out)

\* MassModel(); model.add_reactions([R1, R2]); then the calling code may register a
\* custom rate and fix the concentration of an external species
InitCopy ==
    /\ contexts = <<>>
    /\ snaps = <<>>
    /\ \E st \in {add_reactions(Blank, <<"R1", "R2">>, FALSE, FALSE)} :
           /\ metabolites = st.mets
           /\ reactions = st.rxns
           /\ genes = st.genes
           /\ initial_conditions = st.ics
           /\ rxnMets = st.rm
           /\ metReaction = st.mr
           /\ geneReaction = st.gr
           /\ rxnModel = st.rmod
           /\ S = st.S
    /\ \E custom \in CustomChoices :
           rateDicts = <<custom[1]>> /\ paramDicts = <<custom[2]>>
    /\ fixed_concentrations \in {EmptyFn, "A_Xt" :> 1}
    /\ last = [op |-> "add_reactions", err |-> "none", note |-> "", n |-> 1]
    /\ kinetics = Kinetics0
    /\ returned = NoReturn
    /\ massReaction = Reaction0

NextCopy ==
    \/ Copy
    \/ Merge
    \/ CopyAddFixedConcentrations
    \/ CopyRemoveFixedConcentrations
    \/ CopyAddCustomRate
    \/ CopyRemoveReactions
    \/ CopyAddMetabolites
    \/ OriginalAddFixedConcentrations
    \/ OriginalAddCustomRate

SpecCopy == InitCopy /\ [][NextCopy]_vars

\* what C24 and C25 compare of a model
ModelView(st) ==
    [id |-> st.kin.id, mets |-> st.mets, rxns |-> st.rxns, genes |-> st.genes,
     rm |-> Restrict(st.rm, Range(st.rxns)), ics |-> st.ics,
     rates |-> StRates(st), params |-> StParams(st), fc |-> st.fc,
     modules |-> st.kin.modules, S |-> st.S]

\* C24: a call on the model that copy() returned leaves the registries, coefficient
\* maps, initial conditions, custom rates, custom parameters, fixed-concentration
\* map, module set and cached matrix of the original as they were, and a call on
\* the original leaves those of the copy as they were
C24_CopyIsIndependent ==
    [][/\ (~returned.none /\ returned.op = "copy" /\ last'.op = "on_copy")
             => ModelView(Cur)' = ModelView(Cur)
       /\ (~returned.none /\ returned.op = "copy" /\ last'.op = "on_original")
             => ModelView(returned.model)' = ModelView(returned.model)]_vars

\* the first model as C25 compares it: the cached matrix aside
FirstView(st) == [ModelView(st) EXCEPT !.S = NoneS]

\* C25: merge(second_model, inplace=False) returns a new model and leaves the
\* identifier, registries, initial conditions, custom rates, custom parameters,
\* fixed-concentration map and module set of the first model as they were
C25_MergeLeavesFirstModel ==
    \A second_model \in SecondModels :
        LET out == merge(Cur, second_model)
        IN  /\ out.err = "none"
            /\ FirstView(out.self) = FirstView(Cur)

(***************************************************************************)
(* Exchange reactions, custom rates and fixed concentrations on a model    *)
(* that holds R1 and R2                                                    *)
(***************************************************************************)
\* the arguments of add_exchange: metabolite objects and an object that is none,
\* the exchange types in some spellings, an unknown one and an object that is no
\* string, and external concentrations
ExchangeMetInputs == {"A1", "B1", "NotAMetabolite"}

ExchangeTypeInputs == {StrArg("exchange"), StrArg("Source"), StrArg("sink"), NotAString}

ExchangeConcInputs == {1, -1, NotANumber}

AddExchange ==
    \E metabolite \in ExchangeMetInputs, exchange_type \in ExchangeTypeInputs,
       external_concentration \in ExchangeConcInputs, upd \in BOOLEAN :
        \E out \in {add_exchange(Cur, metabolite, exchange_type,
                                 external_concentration, upd)} :
            Commit(out, "add_exchange", "")

\* the keys of the calling code: an identifier and two external species
ExchangeFcKeys == {"A", "A_Xt", "B_Xt"}

ExAddFixedConcentrations ==
    \E key \in ExchangeFcKeys :
        Commit(add_fixed_concentrations(Cur, key :> 1), "add_fixed_concentrations", "")

ExRemoveFixedConcentrations ==
    \E lst \in Lists(ExchangeFcKeys, 2) :
        Commit(remove_fixed_concentrations(Cur, lst), "remove_fixed_concentrations", "")

\* model.add_reactions([rxn])
ExAddReactions ==
    \E rxn \in RxnObjs :
        Commit(add_reactions(Cur, <<rxn>>, FALSE, FALSE), "add_reactions", "")

\* model.remove_reactions([rxn], remove_orphans) for a reaction of the model
ExRemoveReactions ==
    \E j \in 1..Len(reactions), remove_orphans \in BOOLEAN :
        Commit(remove_reactions(Cur, <<reactions[j]>>, remove_orphans, FALSE, FALSE),
               "remove_reactions", "")

\* model.remove_metabolites([metab], destructive) for a metabolite of the model
ExRemoveMetabolites ==
    \E i \in 1..Len(metabolites), destructive \in BOOLEAN :
        Commit(remove_metabolites(Cur, <<metabolites[i]>>, destructive, FALSE),
               "remove_metabolites", "")

NextExchange ==
    \/ AddExchange
    \/ ExAddFixedConcentrations
    \/ ExRemoveFixedConcentrations
    \/ ExAddReactions
    \/ ExRemoveReactions
    \/ ExRemoveMetabolites
    \/ AddNamedCustomRate
    \/ RemoveCustomRate

SpecExchange == InitCustom /\ [][NextExchange]_vars

\* C29: every key of the custom-rate map is a reaction of the reaction registry,
\* and every key of the fixed-concentration map is a metabolite of the metabolite
\* registry or the external species of an exchange reaction of the model
C29_KeysAreRegistered ==
    /\ DOMAIN CurRates \subseteq Range(reactions)
    /\ \A key \in DOMAIN fixed_concentrations : FcKnown(Cur, key)

\* C30: add_exchange that raises, or returns None because the exchange reaction
\* exists, leaves the reaction registry, the metabolite registry, the cached matrix
\* and the fixed-concentration map as they were; remove_fixed_concentrations that
\* raises has removed no entry of the fixed-concentration map
C30_AllOrNothing ==
    /\ \A metabolite \in ExchangeMetInputs, exchange_type \in ExchangeTypeInputs,
          external_concentration \in ExchangeConcInputs, upd \in BOOLEAN :
           LET out == add_exchange(Cur, metabolite, exchange_type,
                                   external_concentration, upd)
           IN  (out.err # "none" \/ out.ret = NoReturn) =>
                   /\ out.rxns = reactions
                   /\ out.mets = metabolites
                   /\ out.S = S
                   /\ out.fc = fixed_concentrations
    /\ \A lst \in Lists(ExchangeFcKeys, 2) :
           LET out == remove_fixed_concentrations(Cur, lst)
           IN  out.err # "none" => out.fc = fixed_concentrations
====
